---- MODULE Spec2Model ----
(***************************************************************************)
(* Model of the `stats` resolver of src/api/graphql.js (lines 1-252): the  *)
(* static name/ID tables, the demand computation (idsToFetch), the         *)
(* concurrent upstream calls joined by Promise.all, the routing of the     *)
(* batched reply and the merge into the returned object; of the pure       *)
(* marker parsers (parseDataPageDate, parseHomePageDate, parseWeek); and   *)
(* of the vaccinationStats and exposureSites resolvers of the earlier      *)
(* schema kept in the same file (lines 455-659).                           *)
(*                                                                         *)
(* Spec runs one request, SpecLive the same with every dispatched call     *)
(* eventually answered, SpecTwo two requests served at the same time by    *)
(* one instance of the module, SpecPure single runs of the pure functions, *)
(* of covidAPI step by step and of the earlier resolvers.                  *)
(*                                                                         *)
(* JavaScript values are modelled as follows:                              *)
(*   - a string that the code inspects character by character (paragraph   *)
(*     text, statistic heading, formatted date) is a sequence of           *)
(*     one-character strings;                                              *)
(*   - a string that the code only compares or passes on (key name,        *)
(*     record ID, message label) is a TLA+ string;                         *)
(*   - an object is a function whose DOMAIN is the object's own keys, so   *)
(*     `k in obj` is k \in DOMAIN obj and {} is the empty function <<>>;   *)
(*   - an array is a sequence; undefined is the value Undefined.           *)
(***************************************************************************)
EXTENDS Integers, Sequences, FiniteSets, TLC

VARIABLES
    fields,      \* graphqlFields(info): the caller's selection under `stats`
    pc,          \* position of the resolver: "start", "awaiting", "done", "failed"
    requests,    \* upstream calls issued so far, in issue order
    calls,       \* the four elements of the Promise.all array
    replies,     \* the upstream's reply to each call, once it has arrived
    response,    \* the object returned by the resolver (when pc = "done")
    failure,     \* the error the resolver's promise rejected with (when pc = "failed")
    input,       \* run of a pure function: the function's name and its argument
    output,      \* run of a pure function: the function's result
    module,      \* the module-level objects: the ID tables, each RegExp's lastIndex
    peer         \* a second request served by the same module at the same time

vars ==
    <<fields, pc, requests, calls, replies, response, failure, input, output,
      module, peer>>

----------------------------------------------------------------------------
(* Bounds of the model *)

\* most leaves (stat, marker or __typename keys) in one selection
MaxLeaves == 2

\* most records in one batched stats reply
MaxReply == 2

----------------------------------------------------------------------------
(* JavaScript helpers *)

Undefined == "undefined"

EmptyObj == <<>>

\* Array.prototype.filter
RECURSIVE Filter(_, _)
Filter(P(_), s) ==
    IF s = <<>> THEN <<>>
    ELSE IF P(Head(s)) THEN <<Head(s)>> \o Filter(P, Tail(s))
    ELSE Filter(P, Tail(s))

\* Array.prototype.map
Map(F(_), s) == [i \in 1..Len(s) |-> F(s[i])]

\* Array.prototype.flatMap
RECURSIVE FlatMap(_, _)
FlatMap(F(_), s) ==
    IF s = <<>> THEN <<>> ELSE F(Head(s)) \o FlatMap(F, Tail(s))

\* { ...a, ...b }: own keys of a, then those of b, b winning
Spread(a, b) ==
    [k \in (DOMAIN a) \cup (DOMAIN b) |-> IF k \in DOMAIN b THEN b[k] ELSE a[k]]

\* obj?.[k]
Get(obj, k) == IF k \in DOMAIN obj THEN obj[k] ELSE Undefined

\* obj[k] ?? {}
Get2(obj, k) == IF k \in DOMAIN obj THEN obj[k] ELSE EmptyObj

\* elements of a sequence
Range(s) == {s[i] : i \in 1..Len(s)}

----------------------------------------------------------------------------
(* Schema: stat names per section (graphql.js 7-29) *)

weeklyStats ==
    << "newCases", "activeCases", "averageHospitalCases", "averageICUCases",
       "averagePCRTests", "averagePositiveRATs", "totalPCRCases",
       "averageDeaths", "totalDeaths", "totalRecovered" >>

vaxPctStats == << "dose1", "dose2", "dose3" >>

vaxTotalStats ==
    << "newDoses", "totalDoses", "newAustralianDoses", "newVictorianDoses" >>

WEEKLY_UPDATED_ID == "748ad06f-7143-47f1-8006-1347e9d4dd10"
VAX_PCTS_UPDATED_ID == "27c3f771-fdee-4fe9-a014-88c611b81de0"
VAX_TOTALS_WEEK_ID == "91d22388-aff5-4278-b8a7-aa6357cdf389"

\* the object literal passed to nameIdMap for weeklyIds, as its entries
weeklyToIds ==
    << <<"newCases", "8e545be4-b7ab-4f9b-a04e-eb0ba4c815b8">>,
       <<"activeCases", "ec10956c-4f49-4dbf-b751-05e353ef6f27">>,
       <<"averageHospitalCases", "589143cd-192c-4813-9aa2-ddaffd02d075">>,
       <<"averageICUCases", "b7db172d-7f4c-4cba-9bf0-f987591411fc">>,
       <<"averagePCRTests", "957201dc-ed78-4246-9f21-53e7b035d570">>,
       <<"averagePositiveRATs", "f862f783-74a1-4479-b096-ae9167e58525">>,
       <<"totalPCRCases", "b725902f-6878-4829-b9eb-35d605a1be34">>,
       <<"averageDeaths", "a481ad4b-fb95-4645-91fa-19a0eeb2a3cf">>,
       <<"totalDeaths", "69a44e8d-e04b-4c9a-ad7e-4dda9c662ad2">>,
       <<"totalRecovered", "9c9481a7-d67b-4815-9a2d-bb6d71c1a774">> >>

\* the object literal passed to nameIdMap for vaxIds, as its entries
\* the vaccination table with the ID of dose2 pasted for dose3 as well
vaxToIdsPasted ==
    << <<"dose1", "d675c960-cb31-4d94-8b18-dd31b6454aff">>,
       <<"dose2", "4d5012f2-b692-459b-b07f-c91617fcb0d9">>,
       <<"dose3", "4d5012f2-b692-459b-b07f-c91617fcb0d9">>,
       <<"newDoses", "324e92eb-e063-4b00-89f5-50413978d839">>,
       <<"totalDoses", "fce9c2cb-a847-494f-b6b4-7e557e5e5000">>,
       <<"newAustralianDoses", "d0d0089f-fbbd-457e-aa01-7804030c49e4">>,
       <<"newVictorianDoses", "1676357f-540c-49c1-8f09-a79917cc8e84">> >>

vaxToIds ==
    << <<"dose1", "d675c960-cb31-4d94-8b18-dd31b6454aff">>,
       <<"dose2", "4d5012f2-b692-459b-b07f-c91617fcb0d9">>,
       <<"dose3", "11fe8010-615b-480b-8af3-8810c914c6f7">>,
       <<"newDoses", "324e92eb-e063-4b00-89f5-50413978d839">>,
       <<"totalDoses", "fce9c2cb-a847-494f-b6b4-7e557e5e5000">>,
       <<"newAustralianDoses", "d0d0089f-fbbd-457e-aa01-7804030c49e4">>,
       <<"newVictorianDoses", "1676357f-540c-49c1-8f09-a79917cc8e84">> >>

\* an ID the structured content source may hold that is in neither table
UNKNOWN_ID == "00000000-0000-0000-0000-000000000000"

\* a name that every plain object inherits from Object.prototype, and what
\* reading it gives once used as a property key (the function's text)
INHERITED_ID == "constructor"

InheritedKey == "function Object() { [native code] }"

\* every key name a selection under `stats` can hold, in schema order
KeyOrder ==
    << "weekly", "vax", "percentages", "totals", "updated", "week" >>
    \o weeklyStats \o vaxPctStats \o vaxTotalStats \o << "__typename" >>

KeyNames == Range(KeyOrder)

\* every record ID a reply can carry
RecordIds ==
    {weeklyToIds[i][2] : i \in 1..Len(weeklyToIds)}
    \cup {vaxToIds[i][2] : i \in 1..Len(vaxToIds)}
    \cup {UNKNOWN_ID}

\* nameIdMap (graphql.js 52-55): toNames is built entry by entry, a later
\* entry with the same ID replacing an earlier one (Object.fromEntries), and
\* is a plain object, so toNames[id] also finds what the object inherits
nameIdMap(toIds) ==
    LET Has(name) == \E i \in 1..Len(toIds) : toIds[i][1] = name
        At(name) == CHOOSE i \in 1..Len(toIds) : toIds[i][1] = name
        HasId(id) == \E i \in 1..Len(toIds) : toIds[i][2] = id
        Last(id) == CHOOSE i \in 1..Len(toIds) :
                        /\ toIds[i][2] = id
                        /\ \A j \in 1..Len(toIds) : toIds[j][2] = id => j <= i
    IN  [ fromName |-> [name \in KeyNames |->
                          IF Has(name) THEN toIds[At(name)][2] ELSE Undefined],
          fromId |-> [id \in RecordIds \cup {INHERITED_ID} |->
                          IF HasId(id) THEN toIds[Last(id)][1]
                          ELSE IF id = INHERITED_ID THEN InheritedKey
                          ELSE Undefined] ]

weeklyIds == nameIdMap(weeklyToIds)

vaxIds == nameIdMap(vaxToIds)

----------------------------------------------------------------------------
(* The selection: graphqlFields(info) (graphql.js 178) *)

\* Object.keys, in schema order (the selection's own order is not modelled)
ObjectKeys(obj) == Filter(LAMBDA k : k \in DOMAIN obj, KeyOrder)

\* Object.values
ObjectValues(obj) == Map(LAMBDA k : obj[k], ObjectKeys(obj))

\* an object holding the keys of S, each selected without sub-fields
LeafObj(S) == [k \in S |-> EmptyObj]

\* the stat leaves selections are made of: the first and the last stat of
\* each section, and totalDeaths
WeeklyStatLeaves ==
    {weeklyStats[1], "totalDeaths", weeklyStats[Len(weeklyStats)]}
VaxPctStatLeaves == {vaxPctStats[1], vaxPctStats[Len(vaxPctStats)]}
VaxTotalStatLeaves == {vaxTotalStats[1], vaxTotalStats[Len(vaxTotalStats)]}

\* leaves the schema allows under each section (graphql.js 128-148, 161-171),
\* with the meta field __typename that every object type allows
WeeklyLeaves == {"updated", "week", "__typename"} \cup WeeklyStatLeaves
VaxPctLeaves == {"updated", "__typename"} \cup VaxPctStatLeaves
VaxTotalLeaves == {"week", "__typename"} \cup VaxTotalStatLeaves

RECURSIVE SubsetsUpTo(_, _)
SubsetsUpTo(S, n) ==
    IF n <= 0 THEN {{}}
    ELSE LET P == SubsetsUpTo(S, n - 1)
         IN  P \cup {T \cup {x} : T \in P, x \in S}

\* the selection with the given sections present and the given leaves in them
MkFields(hasW, ws, hasV, vt, hasP, ps, hasT, ts) ==
    LET vaxKeys == (IF hasP THEN {"percentages"} ELSE {})
                   \cup (IF hasT THEN {"totals"} ELSE {})
                   \cup (IF vt THEN {"__typename"} ELSE {})
        vax == [k \in vaxKeys |->
                  IF k = "percentages" THEN LeafObj(ps)
                  ELSE IF k = "totals" THEN LeafObj(ts)
                  ELSE EmptyObj]
        top == (IF hasW THEN {"weekly"} ELSE {}) \cup (IF hasV THEN {"vax"} ELSE {})
    IN  [k \in top |-> IF k = "weekly" THEN LeafObj(ws) ELSE vax]

\* a selection that asks for every marker and for one stat of every section
FullSelection ==
    MkFields(TRUE, {"updated", "week", "totalDeaths"}, TRUE, FALSE,
             TRUE, {"updated", "dose1"}, TRUE, {"week", "newDoses"})

\* every selection of at most MaxLeaves leaves; a section can be selected with
\* no leaf left in it, and `vax` with either, both or none of its sub-sections
BoundedSelections ==
    UNION { UNION { UNION {
      { MkFields(hasW, ws, hasV, vt, hasP, ps, hasT, ts) :
          hasW \in (IF ws = {} THEN BOOLEAN ELSE {TRUE}),
          hasP \in (IF ps = {} THEN BOOLEAN ELSE {TRUE}),
          hasT \in (IF ts = {} THEN BOOLEAN ELSE {TRUE}),
          vt \in (IF Cardinality(ws) + Cardinality(ps) + Cardinality(ts) < MaxLeaves
                  THEN BOOLEAN ELSE {FALSE}),
          hasV \in (IF ps = {} /\ ts = {} THEN BOOLEAN ELSE {TRUE}) }
      : ts \in SubsetsUpTo(VaxTotalLeaves,
                           MaxLeaves - Cardinality(ws) - Cardinality(ps)) }
      : ps \in SubsetsUpTo(VaxPctLeaves, MaxLeaves - Cardinality(ws)) }
      : ws \in SubsetsUpTo(WeeklyLeaves, MaxLeaves) }

\* the selections a request is made with
Selections == BoundedSelections \cup {FullSelection}

----------------------------------------------------------------------------
(* Character strings: literals, number conversions, String.prototype methods *)

Digits == <<"0","1","2","3","4","5","6","7","8","9">>

IsDigit(c) == c \in Range(Digits)

\* \w with the u flag: ASCII letters, digits and underscore
WordChars ==
    Range(Digits) \cup {"_"}
    \cup {"a","b","c","d","e","f","g","h","i","j","k","l","m",
          "n","o","p","q","r","s","t","u","v","w","x","y","z"}
    \cup {"A","B","C","D","E","F","G","H","I","J","K","L","M",
          "N","O","P","Q","R","S","T","U","V","W","X","Y","Z"}

IsWord(c) == c \in WordChars

\* . without the s flag: any character but a line terminator
IsLineTerminator(c) == c \in {"\n", "\r"}

\* white space removed by String.prototype.trim
IsSpace(c) == c \in {" ", "\t", "\n", "\r"}

DigitValue(c) == (CHOOSE i \in 1..10 : Digits[i] = c) - 1

\* Number(s) for a string of decimal digits
RECURSIVE Number(_)
Number(s) ==
    IF s = <<>> THEN 0
    ELSE 10 * Number(SubSeq(s, 1, Len(s) - 1)) + DigitValue(s[Len(s)])

\* String(n) for a natural number
RECURSIVE String(_)
String(n) ==
    IF n < 10 THEN <<Digits[n + 1]>> ELSE String(n \div 10) \o <<Digits[(n % 10) + 1]>>

\* s.padStart(n, '0')
RECURSIVE padStart0(_, _)
padStart0(s, n) == IF Len(s) >= n THEN s ELSE padStart0(<<"0">> \o s, n)

\* s.slice(1)
slice1(s) == SubSeq(s, 2, Len(s))

\* s.trim()
RECURSIVE trim(_)
trim(s) ==
    IF s = <<>> THEN s
    ELSE IF IsSpace(Head(s)) THEN trim(Tail(s))
    ELSE IF IsSpace(s[Len(s)]) THEN trim(SubSeq(s, 1, Len(s) - 1))
    ELSE s

\* a value interpolated into a template literal
Interpolate(v) == IF v = Undefined THEN <<"u","n","d","e","f","i","n","e","d">> ELSE v

\* the literal lit occurs in text at position i
LitAt(text, i, lit) ==
    /\ i + Len(lit) - 1 <= Len(text)
    /\ SubSeq(text, i, i + Len(lit) - 1) = lit

\* MONTHS (graphql.js 33-48), as its entries
MONTHS ==
    << <<<<"J","a","n","u","a","r","y">>, <<"0","1">>>>,
       <<<<"F","e","b","r","u","a","r","y">>, <<"0","2">>>>,
       <<<<"M","a","r","c","h">>, <<"0","3">>>>,
       <<<<"A","p","r","i","l">>, <<"0","4">>>>,
       <<<<"M","a","y">>, <<"0","5">>>>,
       <<<<"J","u","n","e">>, <<"0","6">>>>,
       <<<<"J","u","l","y">>, <<"0","7">>>>,
       <<<<"A","u","g","u","s","t">>, <<"0","8">>>>,
       <<<<"S","e","p","t","e","m","b","e","r">>, <<"0","9">>>>,
       <<<<"O","c","t","o","b","e","r">>, <<"1","0">>>>,
       <<<<"N","o","v","e","m","b","e","r">>, <<"1","1">>>>,
       <<<<"D","e","c","e","m","b","e","r">>, <<"1","2">>>> >>

\* MONTHS[month]
MonthsGet(month) ==
    IF \E i \in 1..Len(MONTHS) : MONTHS[i][1] = month
    THEN MONTHS[CHOOSE i \in 1..Len(MONTHS) : MONTHS[i][1] = month][2]
    ELSE Undefined

----------------------------------------------------------------------------
(* Regular expressions. A pattern is a sequence of tokens:                  *)
(*   Lit(s)                      the characters of s                        *)
(*   Rep(cls, min, max, lazy)    min to max characters of class cls         *)
(*   Plus(cls, lazy)             one or more characters of class cls        *)
(*   Grp(n, alts)                capturing group n (0: non-capturing) over  *)
(*                               the alternatives alts, each a pattern      *)
(* and is matched as RegExp.prototype.exec matches it: leftmost start,      *)
(* alternatives in order, greedy or lazy repetition, with backtracking.     *)

Lit(s) == [k |-> "lit", s |-> s]

Rep(cls, min, max, lazy) ==
    [k |-> "cls", cls |-> cls, min |-> min, max |-> max, bounded |-> TRUE, lazy |-> lazy]

Plus(cls, lazy) ==
    [k |-> "cls", cls |-> cls, min |-> 1, max |-> 1, bounded |-> FALSE, lazy |-> lazy]

Grp(n, alts) == [k |-> "grp", n |-> n, alts |-> alts]

\* \d, \w (with the u flag) and . (without the s flag)
InClass(cls, c) ==
    CASE cls = "d" -> IsDigit(c)
      [] cls = "w" -> IsWord(c)
      [] cls = "." -> ~IsLineTerminator(c)

\* how many characters of the token's class follow from pos, up to its max
RECURSIVE RunAt(_, _, _, _)
RunAt(text, pos, tk, n) ==
    IF /\ pos + n <= Len(text)
       /\ InClass(tk.cls, text[pos + n])
       /\ (tk.bounded => n < tk.max)
    THEN RunAt(text, pos, tk, n + 1)
    ELSE n

MatchFail == [ok |-> FALSE]

RECURSIVE Match(_, _, _, _)
RECURSIVE TryCounts(_, _, _, _, _, _, _)
RECURSIVE TryAlts(_, _, _, _, _, _)

\* the first count n, in the token's order of preference, after which the
\* rest of the pattern matches
TryCounts(text, tk, rest, pos, caps, n, run) ==
    LET r == Match(text, rest, pos + n, caps)
    IN  IF r.ok THEN r
        ELSE IF tk.lazy
        THEN (IF n + 1 > run THEN MatchFail
              ELSE TryCounts(text, tk, rest, pos, caps, n + 1, run))
        ELSE (IF n - 1 < tk.min THEN MatchFail
              ELSE TryCounts(text, tk, rest, pos, caps, n - 1, run))

\* the first alternative of the group after which the rest matches
TryAlts(text, tk, rest, pos, caps, a) ==
    IF a > Len(tk.alts) THEN MatchFail
    ELSE LET r == Match(text,
                        tk.alts[a] \o <<[k |-> "close", n |-> tk.n, from |-> pos]>> \o rest,
                        pos, caps)
         IN  IF r.ok THEN r ELSE TryAlts(text, tk, rest, pos, caps, a + 1)

\* the tokens todo matched from position pos on, caps being the groups
\* captured so far
Match(text, todo, pos, caps) ==
    IF todo = <<>> THEN [ok |-> TRUE, caps |-> caps, end |-> pos]
    ELSE CASE Head(todo).k = "lit" ->
                IF LitAt(text, pos, Head(todo).s)
                THEN Match(text, Tail(todo), pos + Len(Head(todo).s), caps)
                ELSE MatchFail
           [] Head(todo).k = "cls" ->
                IF RunAt(text, pos, Head(todo), 0) < Head(todo).min THEN MatchFail
                ELSE TryCounts(text, Head(todo), Tail(todo), pos, caps,
                               IF Head(todo).lazy THEN Head(todo).min
                               ELSE RunAt(text, pos, Head(todo), 0),
                               RunAt(text, pos, Head(todo), 0))
           [] Head(todo).k = "grp" ->
                TryAlts(text, Head(todo), Tail(todo), pos, caps, 1)
           [] Head(todo).k = "close" ->
                Match(text, Tail(todo), pos,
                      IF Head(todo).n = 0 THEN caps
                      ELSE [caps EXCEPT ![Head(todo).n] =
                              SubSeq(text, Head(todo).from, pos - 1)])

\* RegExp.prototype.exec returning null
NoMatch == [matched |-> FALSE]

\* re.exec(text) tried at start positions i, i + 1, ...
RECURSIVE ExecFrom(_, _, _)
ExecFrom(re, text, i) ==
    IF i > Len(text) + 1 THEN NoMatch
    ELSE LET r == Match(text, re.pattern, i, [g \in 1..re.groups |-> Undefined])
         IN  IF r.ok
             THEN [matched |-> TRUE, index |-> i, groups |-> r.caps,
                   lastIndex |-> r.end - 1]
             ELSE ExecFrom(re, text, i + 1)

\* the flags of the RegExp literals with the g flag added
RegExpFlagsGlobal == {"g", "u"}

\* the flags of the four RegExp literals (graphql.js 77, 82, 94, 95)
RegExpFlags == {"u"}

\* a RegExp object keeps a lastIndex that exec reads and writes only when
\* the g or the y flag is set
Global(re) == "g" \in re.flags \/ "y" \in re.flags

\* re.exec(text): the search starts at the first character, or at the
\* RegExp's lastIndex when the g or the y flag is set
exec(re, text) ==
    ExecFrom(re, text, IF Global(re) THEN module.lastIndex[re.name] + 1 ELSE 1)

\* re.lastIndex once re.exec(text) has run
LastIndexAfter(re, text) ==
    IF ~Global(re) THEN module.lastIndex[re.name]
    ELSE LET m == exec(re, text)
         IN  IF m.matched THEN m.lastIndex ELSE 0

\* \d\d?
D12 == << Rep("d", 1, 1, FALSE), Rep("d", 0, 1, FALSE) >>

\* (?:&nbsp;| )
NbspOrSpace == Grp(0, << <<Lit(<<"&","n","b","s","p",";">>)>>, <<Lit(<<" ">>)>> >>)

----------------------------------------------------------------------------
(* parseHomePageDate (graphql.js 77-81) *)

\* /Data last updated .+?day(?:&nbsp;| )(\d\d?)(?:&nbsp;| )(\w+?) (\d{4})/u
HOME_PAGE_UPDATED_RE ==
    [ name |-> "HOME_PAGE_UPDATED_RE", flags |-> RegExpFlags, groups |-> 3,
      pattern |->
        << Lit(<<"D","a","t","a"," ","l","a","s","t"," ","u","p","d","a","t","e","d"," ">>),
           Plus(".", TRUE),
           Lit(<<"d","a","y">>),
           NbspOrSpace,
           Grp(1, <<D12>>),
           NbspOrSpace,
           Grp(2, << <<Plus("w", TRUE)>> >>),
           Lit(<<" ">>),
           Grp(3, << <<Rep("d", 4, 4, FALSE)>> >>) >> ]

\* the template literal of parseHomePageDate, from the match
HomePageDate(m) ==
    IF ~m.matched THEN [threw |-> TRUE, error |-> [name |-> "TypeError"]]
    ELSE [ threw |-> FALSE,
           value |-> m.groups[3] \o <<"-">> \o Interpolate(MonthsGet(m.groups[2]))
                     \o <<"-">> \o padStart0(m.groups[1], 2) ]

parseHomePageDate(text) == HomePageDate(exec(HOME_PAGE_UPDATED_RE, text))

----------------------------------------------------------------------------
(* parseDataPageDate (graphql.js 82-94) *)

\* /Updated:( \d\d?|&nbsp;) (\w+?) (\d{4}) (\d\d?):(\d\d?) (a|p)m/u
DATA_PAGE_UPDATED_RE ==
    [ name |-> "DATA_PAGE_UPDATED_RE", flags |-> RegExpFlags, groups |-> 6,
      pattern |->
        << Lit(<<"U","p","d","a","t","e","d",":">>),
           Grp(1, << <<Lit(<<" ">>)>> \o D12, <<Lit(<<"&","n","b","s","p",";">>)>> >>),
           Lit(<<" ">>),
           Grp(2, << <<Plus("w", TRUE)>> >>),
           Lit(<<" ">>),
           Grp(3, << <<Rep("d", 4, 4, FALSE)>> >>),
           Lit(<<" ">>),
           Grp(4, <<D12>>),
           Lit(<<":">>),
           Grp(5, <<D12>>),
           Lit(<<" ">>),
           Grp(6, << <<Lit(<<"a">>)>>, <<Lit(<<"p">>)>> >>),
           Lit(<<"m">>) >> ]

\* the hour field without the special case of 12 o'clock
Hour24NoTwelve(hourNum, isAM) ==
    IF isAM THEN padStart0(String(hourNum), 2) ELSE String(hourNum + 12)

\* the hour field of the template literal (graphql.js 87-93)
Hour24(hourNum, isAM) ==
    IF hourNum = 12
    THEN (IF isAM THEN <<"0","0">> ELSE <<"1","2">>)
    ELSE (IF isAM THEN padStart0(String(hourNum), 2) ELSE String(hourNum + 12))

\* the day field without the default for an omitted day
DayFieldNoDefault(day) == padStart0(slice1(day), 2)

\* the day field of the template literal (graphql.js 87)
DayField(day) ==
    IF day = <<"&","n","b","s","p",";">> THEN <<"0","1">> ELSE padStart0(slice1(day), 2)

\* the template literal of parseDataPageDate, from the match; destructuring
\* null throws a TypeError
DataPageDate(m) ==
    IF ~m.matched THEN [threw |-> TRUE, error |-> [name |-> "TypeError"]]
    ELSE [ threw |-> FALSE,
           value |-> m.groups[3] \o <<"-">> \o Interpolate(MonthsGet(m.groups[2]))
                     \o <<"-">> \o DayField(m.groups[1])
                     \o <<"T">> \o Hour24(Number(m.groups[4]), m.groups[6] = <<"a">>)
                     \o <<":">> \o m.groups[5] \o <<":","0","0","+","1","0",":","0","0">> ]

parseDataPageDate(text) == DataPageDate(exec(DATA_PAGE_UPDATED_RE, text))

----------------------------------------------------------------------------
(* parseWeek (graphql.js 95-97) *)

\* /Data from (.+?)\./u
WEEKLY_WEEK_RE ==
    [ name |-> "WEEKLY_WEEK_RE", flags |-> RegExpFlags, groups |-> 1,
      pattern |-> << Lit(<<"D","a","t","a"," ","f","r","o","m"," ">>),
                     Grp(1, << <<Plus(".", TRUE)>> >>),
                     Lit(<<".">>) >> ]

\* /From (.+?)</u
VAX_TOTALS_WEEK_RE ==
    [ name |-> "VAX_TOTALS_WEEK_RE", flags |-> RegExpFlags, groups |-> 1,
      pattern |-> << Lit(<<"F","r","o","m"," ">>),
                     Grp(1, << <<Plus(".", TRUE)>> >>),
                     Lit(<<"<">>) >> ]

\* re.exec(text)?.[1]: undefined when there is no match
Group1Optional(m) ==
    IF ~m.matched THEN [threw |-> FALSE, value |-> Undefined]
    ELSE [threw |-> FALSE, value |-> m.groups[1]]

\* re.exec(text)[1], from the match; indexing null throws a TypeError
Group1(m) ==
    IF ~m.matched THEN [threw |-> TRUE, error |-> [name |-> "TypeError"]]
    ELSE [threw |-> FALSE, value |-> m.groups[1]]

\* parseWeek(re)(text)
parseWeek(re, text) == Group1(exec(re, text))

----------------------------------------------------------------------------
(* Upstream replies: what the structured content source can answer *)

\* HTTP status codes an upstream reply can carry
StatusCodes == {200, 204, 500}

\* paragraph texts the weekly data page can hold: both markers, the date
\* alone, the week alone, neither
WeeklyTexts ==
    { <<"U","p","d","a","t","e","d",":"," ","1","6"," ","S","e","p","t","e","m","b","e","r"," ","2","0","2","2"," ","2",":","3","0"," ","p","m"," ","D","a","t","a"," ","f","r","o","m"," ","1","6"," ","-"," ","2","2"," ","S","e","p",".">>,
      <<"U","p","d","a","t","e","d",":","&","n","b","s","p",";"," ","S","e","p","t","e","m","b","e","r"," ","2","0","2","2"," ","9",":","0","5"," ","a","m">>,
      <<"D","a","t","a"," ","f","r","o","m"," ","1","6"," ","-"," ","2","2"," ","S","e","p",".">>,
      <<"n","/","a">> }

\* paragraph texts the home page can hold
VaxPctTexts ==
    { <<"D","a","t","a"," ","l","a","s","t"," ","u","p","d","a","t","e","d"," ","F","r","i","d","a","y"," ","1","6"," ","S","e","p","t","e","m","b","e","r"," ","2","0","2","2">>,
      <<"n","/","a">> }

\* paragraph texts the weekly vaccination page can hold
VaxTotalTexts ==
    { <<"F","r","o","m"," ","6"," ","-"," ","1","2"," ","S","e","p"," ","2","0","2","2","<","/","p",">">>,
      <<"n","/","a">> }

\* IDs a reply can carry besides the requested ones: one that was not asked
\* for and one that is in neither table
StrayIds == { weeklyIds.fromName["totalRecovered"], UNKNOWN_ID }

\* the heading the source holds for each record: the record's number, with
\* white space around it
RecordOrder ==
    Map(LAMBDA e : e[2], weeklyToIds) \o Map(LAMBDA e : e[2], vaxToIds)
    \o <<UNKNOWN_ID, INHERITED_ID>>

HeadingOf(id) ==
    <<" ">> \o String(CHOOSE i \in 1..Len(RecordOrder) : RecordOrder[i] = id)
    \o <<" ", "\n">>

SeqsUpTo(S, n) == UNION {[1..k -> S] : k \in 0..n}

\* data envelopes
Data(datas) == { [valid |-> TRUE, json |-> [data |-> d]] : d \in datas }

\* a body that is not JSON, and an error envelope
BadBodies ==
    { [valid |-> FALSE], [valid |-> TRUE, json |-> [errors |-> <<"upstream error">>]] }

ParagraphData(texts) ==
    { [attributes |-> [field_paragraph_body |-> [value |-> x]]] : x \in texts }

\* the record the source holds under an ID
Record(i) == [id |-> i, attributes |-> [field_statistic_heading |-> HeadingOf(i)]]

\* the records of the IDs of S, each once, in the source's order
RecordsOf(S) ==
    LET place(i) == CHOOSE k \in 1..Len(RecordOrder) : RecordOrder[k] = i
    IN  [k \in 1..Cardinality(S) |->
           Record(CHOOSE i \in S : Cardinality({j \in S : place(j) < place(i)}) = k - 1)]

\* the data a batched reply can carry when the IDs of ids were asked for:
\* records asked for and stray ones, any of them missing
StatsData(ids) ==
    { RecordsOf(S) : S \in SubsetsUpTo((Range(ids) \ {Undefined}) \cup StrayIds, MaxReply) }

\* the replies to a call whose data envelopes are `datas`: any body with
\* status 200; a data envelope with each other status, and a body that is
\* not JSON with status 500
Replies(datas) ==
    [statusCode : {200}, body : BadBodies \cup Data(datas)]
    \cup [statusCode : StatusCodes \ {200}, body : Data({CHOOSE d \in datas : TRUE})]
    \cup [statusCode : {500}, body : {[valid |-> FALSE]}]

----------------------------------------------------------------------------
(* Utils (graphql.js 100-118). A function that can throw returns            *)
(* [threw |-> TRUE, error |-> e] or [threw |-> FALSE, value |-> v].         *)

notUpdated(x) == x # "updated"

Threw(e) == [threw |-> TRUE, error |-> e]

Returned(v) == [threw |-> FALSE, value |-> v]

\* fetch without the check of the status code
fetchUnchecked(reply, message) == Returned(reply.body)

\* fetch accepting every status code from 200 to 299
fetchAny2xx(reply, message) ==
    IF reply.statusCode < 200 \/ reply.statusCode > 299
    THEN Threw([name |-> "Error", what |-> "HTTP status code",
                statusCode |-> reply.statusCode, message |-> message])
    ELSE Returned(reply.body)

\* fetch: the body of a reply with status 200, an Error otherwise
fetch(reply, message) ==
    IF reply.statusCode # 200
    THEN Threw([name |-> "Error", what |-> "HTTP status code",
                statusCode |-> reply.statusCode, message |-> message])
    ELSE Returned(reply.body)

\* body.json(), r being the outcome of fetch
Json(r) ==
    IF r.threw THEN r
    ELSE IF ~r.value.valid THEN Threw([name |-> "SyntaxError"])
    ELSE Returned(r.value.json)

\* fetchJSON: (await fetch(...)).json()
fetchJSON(reply, message) == Json(fetch(reply, message))

\* the envelope check of covidAPI (graphql.js 111-114), r being the outcome
\* of fetchJSON
Envelope(r, message) ==
    IF r.threw THEN r
    ELSE IF "errors" \in DOMAIN r.value
    THEN Threw([name |-> "Error", what |-> "failed",
                message |-> <<"fetching ", message>>, errors |-> r.value.errors])
    ELSE Returned(r.value.data)

\* covidAPI: response.data, an Error for an `errors` envelope
covidAPI(reply, message) ==
    Envelope(fetchJSON(reply, <<"fetching ", message>>), message)

\* .attributes.field_paragraph_body.value, r being the outcome of covidAPI
BodyValue(r) ==
    IF r.threw THEN r
    ELSE Returned(r.value.attributes.field_paragraph_body.value)

\* fetchParagraph: the paragraph's body text
fetchParagraph(reply, message) == BodyValue(covidAPI(reply, message))

----------------------------------------------------------------------------
(* The `stats` resolver (graphql.js 177-247) *)

\* the elements of the Promise.all array, in order
\* one paragraph fetch for each of the two weekly marker leaves
CallNamesPerLeaf ==
    << "weeklyMarker", "weeklyMarker", "vaxPctsUpdated", "vaxTotalsWeek", "stats" >>

CallNames == << "weeklyMarker", "vaxPctsUpdated", "vaxTotalsWeek", "stats" >>

Calls == Range(CallNames)

\* idsToFetch looking the weekly names up in the vaccination table
idsToFetchWrongTable(f) ==
    (IF "weekly" \in DOMAIN f
     THEN Map(LAMBDA n : vaxIds.fromName[n],
              Filter(notUpdated, ObjectKeys(f.weekly)))
     ELSE <<>>)
    \o
    (IF "vax" \in DOMAIN f
     THEN Map(LAMBDA n : vaxIds.fromName[n],
              Filter(notUpdated, FlatMap(ObjectKeys, ObjectValues(f.vax))))
     ELSE <<>>)

\* idsToFetch (graphql.js 179-190)
idsToFetch(f) ==
    (IF "weekly" \in DOMAIN f
     THEN Map(LAMBDA n : weeklyIds.fromName[n],
              Filter(notUpdated, ObjectKeys(f.weekly)))
     ELSE <<>>)
    \o
    (IF "vax" \in DOMAIN f
     THEN Map(LAMBDA n : vaxIds.fromName[n],
              Filter(notUpdated, FlatMap(ObjectKeys, ObjectValues(f.vax))))
     ELSE <<>>)

\* fields.weekly?.updated, fields.weekly?.week
WeeklyUpdatedWanted(f) == "weekly" \in DOMAIN f /\ "updated" \in DOMAIN f.weekly
WeeklyWeekWanted(f) == "weekly" \in DOMAIN f /\ "week" \in DOMAIN f.weekly

\* fields.vax?.percentages?.updated
VaxPctsUpdatedWanted(f) ==
    /\ "vax" \in DOMAIN f
    /\ "percentages" \in DOMAIN f.vax
    /\ "updated" \in DOMAIN f.vax.percentages

\* fields.vax?.totals?.week
VaxTotalsWeekWanted(f) ==
    /\ "vax" \in DOMAIN f
    /\ "totals" \in DOMAIN f.vax
    /\ "week" \in DOMAIN f.vax.totals

\* the conditions with the weekly marker call made for `updated` alone
WantedUpdatedOnly(f, c) ==
    CASE c = "weeklyMarker" -> WeeklyUpdatedWanted(f)
      [] c = "vaxPctsUpdated" -> VaxPctsUpdatedWanted(f)
      [] c = "vaxTotalsWeek" -> VaxTotalsWeekWanted(f)
      [] c = "stats" -> Len(idsToFetch(f)) # 0

\* the condition of each element of the Promise.all array (graphql.js 192,
\* 202, 205, 208): whether the element is an upstream call
Wanted(f, c) ==
    CASE c = "weeklyMarker" -> WeeklyUpdatedWanted(f) \/ WeeklyWeekWanted(f)
      [] c = "vaxPctsUpdated" -> VaxPctsUpdatedWanted(f)
      [] c = "vaxTotalsWeek" -> VaxTotalsWeekWanted(f)
      [] c = "stats" -> Len(idsToFetch(f)) # 0

\* the defaults with null-like empty strings for the vaccination markers
DefaultEmptyString(c) ==
    CASE c = "weeklyMarker" -> <<>>
      [] c = "vaxPctsUpdated" -> <<>>
      [] c = "vaxTotalsWeek" -> <<>>
      [] c = "stats" -> EmptyObj

\* the value of an element that is not an upstream call
\* (graphql.js 201, 204, 207, 238)
Default(c) ==
    CASE c = "weeklyMarker" -> <<>>
      [] c = "vaxPctsUpdated" -> Undefined
      [] c = "vaxTotalsWeek" -> Undefined
      [] c = "stats" -> EmptyObj

\* the message label of each upstream call (graphql.js 193, 203, 206, 209)
Message(c) ==
    CASE c = "weeklyMarker" -> "weekly (data page) updated + week"
      [] c = "vaxPctsUpdated" -> "vaccination percentages (home page) updated"
      [] c = "vaxTotalsWeek" -> "vaccination totals (weekly vaccination page) week"
      [] c = "stats" -> "stats"

\* the request an upstream call sends (graphql.js 193, 203, 206, 209-219)
Request(f, c) ==
    CASE c = "weeklyMarker" ->
           [call |-> c, path |-> <<"paragraph/basic_text/", WEEKLY_UPDATED_ID>>,
            message |-> Message(c)]
      [] c = "vaxPctsUpdated" ->
           [call |-> c, path |-> <<"paragraph/basic_text/", VAX_PCTS_UPDATED_ID>>,
            message |-> Message(c)]
      [] c = "vaxTotalsWeek" ->
           [call |-> c, path |-> <<"paragraph/basic_text/", VAX_TOTALS_WEEK_ID>>,
            message |-> Message(c)]
      [] c = "stats" ->
           [call |-> c, path |-> <<"paragraph/statistic_block">>,
            message |-> Message(c),
            filter |-> [path |-> "id", operator |-> "IN", value |-> idsToFetch(f)]]

\* the replies the upstream can give to a call
RepliesTo(f, c) ==
    CASE c = "weeklyMarker" -> Replies(ParagraphData(WeeklyTexts))
      [] c = "vaxPctsUpdated" -> Replies(ParagraphData(VaxPctTexts))
      [] c = "vaxTotalsWeek" -> Replies(ParagraphData(VaxTotalTexts))
      [] c = "stats" -> Replies(StatsData(idsToFetch(f)))

\* spelling of the vax stat names, for key.startsWith('dose')
Spelling ==
    [ dose1 |-> <<"d","o","s","e","1">>, dose2 |-> <<"d","o","s","e","2">>, dose3 |-> <<"d","o","s","e","3">>,
      newDoses |-> <<"n","e","w","D","o","s","e","s">>,
      totalDoses |-> <<"t","o","t","a","l","D","o","s","e","s">>,
      newAustralianDoses |-> <<"n","e","w","A","u","s","t","r","a","l","i","a","n","D","o","s","e","s">>,
      newVictorianDoses |-> <<"n","e","w","V","i","c","t","o","r","i","a","n","D","o","s","e","s">> ]

\* the test with the prefix misspelt
startsWithDoses(key) == LitAt(Spelling[key], 1, <<"d","o","s","e","s">>)

startsWithDose(key) == LitAt(Spelling[key], 1, <<"d","o","s","e">>)

\* acc with acc[k] ??= {} and then acc[k][key] = value
Put(acc, k, key, value) ==
    [x \in (DOMAIN acc) \cup {k} |->
       IF x = k THEN Spread(Get2(acc, k), [y \in {key} |-> value]) ELSE acc[x]]


\* one iteration of the loop over the batched reply (graphql.js 222-235)
RouteRecord(acc, rec) ==
    LET id == rec.id
        stat == rec.attributes.field_statistic_heading
        weeklyKey == weeklyIds.fromId[id]
        key == vaxIds.fromId[id]
        accVax == [x \in (DOMAIN acc) \cup {"vax"} |->
                     IF x = "vax" THEN Get2(acc, "vax") ELSE acc[x]]
    IN  IF weeklyKey = Undefined
        THEN IF key = Undefined
             THEN Threw([name |-> "TypeError"])     \* undefined.startsWith
             ELSE Returned([accVax EXCEPT !["vax"] =
                      Put(accVax["vax"],
                          IF startsWithDose(key) THEN "percentages" ELSE "totals",
                          key, trim(stat))])
        ELSE Returned(Put(acc, "weekly", weeklyKey, trim(stat)))

\* the `then` callback of the batched stats call (graphql.js 220-237)
RECURSIVE RouteFrom(_, _)
RouteFrom(acc, data) ==
    IF data = <<>> THEN Returned(acc)
    ELSE LET r == RouteRecord(acc, Head(data))
         IN  IF r.threw THEN r ELSE RouteFrom(r.value, Tail(data))

Route(data) == RouteFrom(EmptyObj, data)

\* the array literal [u, w], whose elements are evaluated in order
Pair(u, w) ==
    IF u.threw THEN u
    ELSE IF w.threw THEN w
    ELSE Returned(<<u.value, w.value>>)

\* a callback that applies both parsers whatever was selected
WeeklyMarkersBoth(f, text) ==
    Pair(parseDataPageDate(text), parseWeek(WEEKLY_WEEK_RE, text))

\* the `then` callback of the weekly marker call (graphql.js 193-200)
WeeklyMarkers(f, text) ==
    Pair(IF WeeklyUpdatedWanted(f)
         THEN parseDataPageDate(text) ELSE Returned(Undefined),
         IF WeeklyWeekWanted(f)
         THEN parseWeek(WEEKLY_WEEK_RE, text) ELSE Returned(Undefined))

\* the upstream call of element c, from the reply to its request
Fetched(c, reply) ==
    IF c = "stats" THEN covidAPI(reply, Message(c))
    ELSE fetchParagraph(reply, Message(c))

\* the `then` callback of element c, r being the outcome of its upstream call
Then(f, c, r) ==
    IF r.threw THEN r
    ELSE CASE c = "weeklyMarker" -> WeeklyMarkers(f, r.value)
           [] c = "vaxPctsUpdated" -> parseHomePageDate(r.value)
           [] c = "vaxTotalsWeek" -> parseWeek(VAX_TOTALS_WEEK_RE, r.value)
           [] c = "stats" -> Route(r.value)

\* the promise of an upstream call, settled by the reply: fulfilled with
\* [threw |-> FALSE, value |-> v] or rejected with [threw |-> TRUE, error |-> e]
Settled(f, c, reply) == Then(f, c, Fetched(c, reply))

\* a return that destructures the two vax markers in the opposite order
ReturnSwapped(cs) ==
    LET pair == cs["weeklyMarker"].value
        weeklyUpdated == IF Len(pair) >= 1 THEN pair[1] ELSE Undefined
        weeklyWeek == IF Len(pair) >= 2 THEN pair[2] ELSE Undefined
        acc == cs["stats"].value
        vax == Get2(acc, "vax")
    IN  [ weekly |-> Spread(Get2(acc, "weekly"),
                            [updated |-> weeklyUpdated, week |-> weeklyWeek]),
          vax |-> [ percentages |-> Spread(Get2(vax, "percentages"),
                                           [updated |-> cs["vaxTotalsWeek"].value]),
                    totals |-> Spread(Get2(vax, "totals"),
                                      [week |-> cs["vaxPctsUpdated"].value]) ] ]

\* the object the resolver returns from the values Promise.all resolved
\* with (graphql.js 191, 240-246)
Return(cs) ==
    LET pair == cs["weeklyMarker"].value
        weeklyUpdated == IF Len(pair) >= 1 THEN pair[1] ELSE Undefined
        weeklyWeek == IF Len(pair) >= 2 THEN pair[2] ELSE Undefined
        vaxPctsUpdated == cs["vaxPctsUpdated"].value
        vaxTotalsWeek == cs["vaxTotalsWeek"].value
        acc == cs["stats"].value
        vax == Get2(acc, "vax")
    IN  [ weekly |-> Spread(Get2(acc, "weekly"),
                            [updated |-> weeklyUpdated, week |-> weeklyWeek]),
          vax |-> [ percentages |-> Spread(Get2(vax, "percentages"),
                                           [updated |-> vaxPctsUpdated]),
                    totals |-> Spread(Get2(vax, "totals"),
                                      [week |-> vaxTotalsWeek]) ] ]

NoResponse == EmptyObj

NoFailure == [name |-> "none"]

NoReply == [statusCode |-> 0]

NoInput == [fn |-> "none"]

NoOutput == [state |-> "idle"]

AllFulfilled(cs) == \A c \in Calls : cs[c].state = "fulfilled"

\* the synchronous part of the resolver: the demand is computed and every
\* wanted upstream call is issued while the Promise.all array is built;
\* with no call to wait for, the await resumes with the default values
Resolve ==
    /\ pc = "start"
    /\ LET cs == [c \in Calls |->
                    IF Wanted(fields, c) THEN [state |-> "pending"]
                    ELSE [state |-> "fulfilled", value |-> Default(c)]]
       IN  /\ calls' = cs
           /\ requests' = Map(LAMBDA c : Request(fields, c),
                              Filter(LAMBDA c : Wanted(fields, c), CallNames))
           /\ IF AllFulfilled(cs)
              THEN pc' = "done" /\ response' = Return(cs)
              ELSE pc' = "awaiting" /\ response' = response
    /\ UNCHANGED <<fields, replies, failure, input, output, module, peer>>

\* a join that waits for every element and never rejects
JoinAllSettled(r, cs) ==
    /\ calls' = cs
    /\ IF pc = "awaiting" /\ AllFulfilled(cs)
       THEN pc' = "done" /\ response' = Return(cs) /\ failure' = failure
       ELSE UNCHANGED <<pc, failure, response>>

\* a join whose outcome follows whichever element settled last
JoinLastWins(r, cs) ==
    /\ calls' = cs
    /\ IF r.threw
       THEN pc' = "failed" /\ failure' = r.error /\ response' = response
       ELSE IF AllFulfilled(cs)
       THEN pc' = "done" /\ response' = Return(cs) /\ failure' = failure
       ELSE UNCHANGED <<pc, failure, response>>

\* Promise.all and the resolver's continuation, cs being the array once an
\* element has settled with outcome r: Promise.all rejects on the first
\* rejection, resolves when the last element is fulfilled (the resolver then
\* returns), and ignores whatever settles after it has rejected
Join(r, cs) ==
    /\ calls' = cs
    /\ IF pc = "awaiting" /\ r.threw
       THEN pc' = "failed" /\ failure' = r.error /\ response' = response
       ELSE IF pc = "awaiting" /\ AllFulfilled(cs)
       THEN pc' = "done" /\ response' = Return(cs) /\ failure' = failure
       ELSE UNCHANGED <<pc, failure, response>>

\* the promise of element c as settled with outcome r
Promise(r) ==
    IF r.threw THEN [state |-> "rejected", error |-> r.error]
    ELSE [state |-> "fulfilled", value |-> r.value]

SettleWith(c, r) == Join(r, [calls EXCEPT ![c] = Promise(r)])

\* the module-level objects as the module's top level leaves them
\* (graphql.js 52-76 the tables, 77-95 the RegExps)
ModuleInit ==
    [ weeklyIds |-> weeklyIds, vaxIds |-> vaxIds,
      lastIndex |-> [n \in {HOME_PAGE_UPDATED_RE.name, DATA_PAGE_UPDATED_RE.name,
                            WEEKLY_WEEK_RE.name, VAX_TOTALS_WEEK_RE.name} |-> 0] ]

\* the module-level objects once each RegExp of res has run exec on text
Executed(res, text) ==
    [module EXCEPT !.lastIndex =
       [n \in DOMAIN @ |->
          IF \E re \in res : re.name = n
          THEN LastIndexAfter(CHOOSE re \in res : re.name = n, text)
          ELSE @[n]]]

\* the RegExps the `then` callback of call c runs on the fetched text: the
\* weekly callback parses the week only once the date has been parsed
Execs(f, c, text) ==
    CASE c = "weeklyMarker" ->
           (IF WeeklyUpdatedWanted(f) THEN {DATA_PAGE_UPDATED_RE} ELSE {})
           \cup (IF /\ WeeklyWeekWanted(f)
                    /\ WeeklyUpdatedWanted(f) => ~parseDataPageDate(text).threw
                 THEN {WEEKLY_WEEK_RE} ELSE {})
      [] c = "vaxPctsUpdated" -> {HOME_PAGE_UPDATED_RE}
      [] c = "vaxTotalsWeek" -> {VAX_TOTALS_WEEK_RE}
      [] c = "stats" -> {}

\* the module-level objects once the reply to call c has been handled
ModuleAfter(f, c, reply) ==
    LET r == Fetched(c, reply)
    IN  IF r.threw \/ c = "stats" THEN module
        ELSE Executed(Execs(f, c, r.value), r.value)

\* no second request
NoPeer == [pc |-> "off"]

\* the reply of one upstream call arrives and its promise settles
Settle(c) ==
    /\ pc \in {"awaiting", "failed"}
    /\ calls[c].state = "pending"
    /\ \E reply \in RepliesTo(fields, c) :
         /\ SettleWith(c, Settled(fields, c, reply))
         /\ replies' = [replies EXCEPT ![c] = reply]
         /\ module' = ModuleAfter(fields, c, reply)
    /\ UNCHANGED <<fields, requests, input, output, peer>>

Init ==
    /\ fields \in Selections
    /\ pc = "start"
    /\ requests = <<>>
    /\ calls = [c \in Calls |-> [state |-> "idle"]]
    /\ replies = [c \in Calls |-> NoReply]
    /\ response = NoResponse
    /\ failure = NoFailure
    /\ input = NoInput
    /\ output = NoOutput
    /\ module = ModuleInit
    /\ peer = NoPeer

Next ==
    \/ Resolve
    \/ \E c \in Calls : Settle(c)

Spec == Init /\ [][Next]_vars

\* whether the reply to call c is still outstanding: Settle(c) can then be
\* taken, and taking it changes calls[c]
CanSettle(c) == pc \in {"awaiting", "failed"} /\ calls[c].state = "pending"

\* the same with every step that can be taken eventually taken: the resolver
\* runs once the request has arrived, and every upstream call that was
\* dispatched is eventually answered.  Each conjunct is weak fairness of the
\* action written out, []<>~ENABLED <<A>>_vars \/ []<><<A>>_vars, with the
\* enabling condition of the action in place of ENABLED
SpecLive ==
    /\ Init /\ [][Next]_vars
    /\ ([]<>(pc # "start") \/ []<><<Resolve>>_vars)
    /\ \A c \in Calls : ([]<>~CanSettle(c) \/ []<><<Settle(c)>>_vars)

----------------------------------------------------------------------------
(* Two requests served at the same time by one instance of the module: each *)
(* runs the resolver with its own arguments and locals (graphql.js 177-247) *)
(* and both use the module-level tables and RegExps (graphql.js 52-95)      *)

\* a request before its resolver has run
NewRequest(f) ==
    [ fields |-> f, pc |-> "start", requests |-> <<>>,
      calls |-> [c \in Calls |-> [state |-> "idle"]],
      replies |-> [c \in Calls |-> NoReply],
      response |-> NoResponse, failure |-> NoFailure ]

\* the synchronous part of the resolver, on the request s
Resolved(s) ==
    LET cs == [c \in Calls |->
                 IF Wanted(s.fields, c) THEN [state |-> "pending"]
                 ELSE [state |-> "fulfilled", value |-> Default(c)]]
    IN  [s EXCEPT !.calls = cs,
                  !.requests = Map(LAMBDA c : Request(s.fields, c),
                                   Filter(LAMBDA c : Wanted(s.fields, c), CallNames)),
                  !.pc = IF AllFulfilled(cs) THEN "done" ELSE "awaiting",
                  !.response = IF AllFulfilled(cs) THEN Return(cs) ELSE @]

\* Promise.all and the resolver's continuation, on the request s
Joined(s, r, cs) ==
    IF s.pc = "awaiting" /\ r.threw
    THEN [s EXCEPT !.calls = cs, !.pc = "failed", !.failure = r.error]
    ELSE IF s.pc = "awaiting" /\ AllFulfilled(cs)
    THEN [s EXCEPT !.calls = cs, !.pc = "done", !.response = Return(cs)]
    ELSE [s EXCEPT !.calls = cs]

\* the resolver runs for the second request
PeerResolve ==
    /\ peer.pc = "start"
    /\ peer' = Resolved(peer)
    /\ UNCHANGED <<fields, pc, requests, calls, replies, response, failure,
                   input, output, module>>

\* the reply of one upstream call of the second request arrives
PeerSettle(c) ==
    /\ peer.pc \in {"awaiting", "failed"}
    /\ peer.calls[c].state = "pending"
    /\ \E reply \in RepliesTo(peer.fields, c) :
         LET r == Settled(peer.fields, c, reply)
         IN  /\ peer' = [Joined(peer, r, [peer.calls EXCEPT ![c] = Promise(r)])
                           EXCEPT !.replies[c] = reply]
             /\ module' = ModuleAfter(peer.fields, c, reply)
    /\ UNCHANGED <<fields, pc, requests, calls, replies, response, failure,
                   input, output>>

\* the selections of the two requests: a marker alone, a marker whose leaf
\* also enters the batched call, and a marker with a stat
PairSelections ==
    { MkFields(TRUE, {"updated"}, FALSE, FALSE, FALSE, {}, FALSE, {}),
      MkFields(TRUE, {"week"}, FALSE, FALSE, FALSE, {}, FALSE, {}),
      MkFields(FALSE, {}, TRUE, FALSE, TRUE, {"updated", "dose1"}, FALSE, {}) }

InitTwo ==
    /\ fields \in PairSelections
    /\ peer \in {NewRequest(f) : f \in PairSelections}
    /\ pc = "start"
    /\ requests = <<>>
    /\ calls = [c \in Calls |-> [state |-> "idle"]]
    /\ replies = [c \in Calls |-> NoReply]
    /\ response = NoResponse
    /\ failure = NoFailure
    /\ input = NoInput
    /\ output = NoOutput
    /\ module = ModuleInit

NextTwo ==
    \/ Resolve
    \/ \E c \in Calls : Settle(c)
    \/ PeerResolve
    \/ \E c \in Calls : PeerSettle(c)

SpecTwo == InitTwo /\ [][NextTwo]_vars

----------------------------------------------------------------------------
(* The vaccinationStats resolver of the earlier schema (graphql.js 640-654) *)

\* the places where sep occurs in s
SepAt(s, sep) == {i \in 1..Len(s) : LitAt(s, i, sep)}

\* s.split(sep), for a separator whose occurrences cannot overlap
split(s, sep) ==
    LET at == SepAt(s, sep)
        nth(k) == CHOOSE i \in at : Cardinality({j \in at : j < i}) = k - 1
        from(k) == IF k = 1 THEN 1 ELSE nth(k - 1) + Len(sep)
        to(k) == IF k = Cardinality(at) + 1 THEN Len(s) ELSE nth(k) - 1
    IN  [k \in 1..(Cardinality(at) + 1) |-> SubSeq(s, from(k), to(k))]

\* a.join(sep)
RECURSIVE join(_, _)
join(a, sep) ==
    IF a = <<>> THEN <<>>
    ELSE IF Len(a) = 1 THEN a[1]
    ELSE a[1] \o sep \o join(Tail(a), sep)

\* a.slice(-n)
sliceLast(a, n) == SubSeq(a, IF Len(a) > n THEN Len(a) - n + 1 ELSE 1, Len(a))

\* element i of a destructured array: undefined past its end
At(a, i) == IF i <= Len(a) THEN a[i] ELSE Undefined

NaN == [nan |-> TRUE]

\* the digits of s after its decimal point, as hundredths
Fraction(s) ==
    IF s = <<>> THEN 0
    ELSE IF Len(s) = 1 THEN 10 * DigitValue(s[1])
    ELSE Number(s)

\* Number(v) for a rate: v is a decimal numeral of at most two decimals, as
\* the feed writes its rates, and the number is held as its hundredths; the
\* empty string is 0, anything else (undefined too) is NaN
ToNumber(v) ==
    IF v = Undefined THEN NaN
    ELSE LET s == trim(v)
             dots == SepAt(s, <<".">>)
             whole == IF dots = {} THEN s ELSE SubSeq(s, 1, (CHOOSE i \in dots : TRUE) - 1)
             frac == IF dots = {} THEN <<>>
                     ELSE SubSeq(s, (CHOOSE i \in dots : TRUE) + 1, Len(s))
         IN  IF s = <<>> THEN [nan |-> FALSE, hundredths |-> 0]
             ELSE IF /\ Cardinality(dots) <= 1
                     /\ whole \o frac # <<>>
                     /\ Len(frac) <= 2
                     /\ \A i \in 1..Len(whole) : IsDigit(whole[i])
                     /\ \A i \in 1..Len(frac) : IsDigit(frac[i])
             THEN [nan |-> FALSE, hundredths |-> 100 * Number(whole) + Fraction(frac)]
             ELSE NaN

\* x - y
Minus(x, y) ==
    IF x.nan \/ y.nan THEN NaN
    ELSE [nan |-> FALSE, hundredths |-> x.hundredths - y.hundredths]

\* x.toFixed(2): the difference of two numbers of two decimals is, as a
\* double, nearer to its multiple of 0.01 than to any other, and toFixed
\* rounds it to that multiple
toFixed2(x) ==
    IF x.nan THEN <<"N", "a", "N">>
    ELSE LET k == IF x.hundredths < 0 THEN 0 - x.hundredths ELSE x.hundredths
         IN  (IF x.hundredths < 0 THEN <<"-">> ELSE <<>>)
             \o String(k \div 100) \o <<".">> \o padStart0(String(k % 100), 2)

\* a delta with the operands the other way round
DeltaSwapped(today, yesterday) == toFixed2(Minus(ToNumber(yesterday), ToNumber(today)))

\* (Number(today) - Number(yesterday)).toFixed(2) (graphql.js 650, 652)
Delta(today, yesterday) == toFixed2(Minus(ToNumber(today), ToNumber(yesterday)))

\* the object the resolver returns (graphql.js 647-653)
VaxStats(yesterday1, yesterday2, today, today1, today2) ==
    [ updated |-> join(split(today, <<"/">>), <<"-">>),
      vaxRate |-> toFixed2(ToNumber(today1)),
      vaxRateDelta |-> Delta(today1, yesterday1),
      vax2Rate |-> today2,
      vax2RateDelta |-> Delta(today2, yesterday2) ]

\* the filter ([, place]) => place === 'VIC'
IsVIC(row) == <<"V", "I", "C">> = At(row, 2)

\* the destructuring of the filtered rows (graphql.js 641): the first two
\* rows are yesterday's and today's; destructuring a missing row is a
\* TypeError
FromRows(rows) ==
    IF Len(rows) < 2 THEN Threw([name |-> "TypeError"])
    ELSE Returned(VaxStats(At(rows[1], 4), At(rows[1], 6),
                           At(rows[2], 1), At(rows[2], 4), At(rows[2], 6)))

\* the rows of the last 18 lines of the feed that are Victoria's
VicRows(text) ==
    Filter(IsVIC, Map(LAMBDA line : split(line, <<",">>),
                      sliceLast(split(text, <<"\r", "\n">>), 18)))

\* the resolver, from the reply to its fetch (graphql.js 499-504, 640-654)
vaccinationStats(reply) ==
    IF ~reply.ok THEN Threw([name |-> "Error", statusText |-> reply.statusText])
    ELSE FromRows(VicRows(reply.text))

----------------------------------------------------------------------------
(* The exposureSites resolver of the earlier schema (graphql.js 623-629),  *)
(* with that schema's fetch and fetchJSON (graphql.js 499-505)             *)

\* fetch: the response when it is ok, an Error with its status text otherwise
fetchResponse(reply) ==
    IF ~reply.ok THEN Threw([name |-> "Error", statusText |-> reply.statusText])
    ELSE Returned(reply)

\* fetchJSON: (await fetch(...)).json()
fetchJSONResponse(reply) ==
    LET r == fetchResponse(reply)
    IN  IF r.threw THEN r
        ELSE IF ~r.value.valid THEN Threw([name |-> "SyntaxError"])
        ELSE Returned(r.value.json)

\* obj[k], undefined when obj has no such key
Prop(obj, k) == IF k \in DOMAIN obj THEN obj[k] ELSE Undefined

\* data.success taken as a condition: true for the boolean true, false for
\* the boolean false and for a reply without the field
Success(data) == "success" \in DOMAIN data /\ data.success

\* the resolver after the fetch without the check of `success`
SiteCountUnchecked(data) ==
    IF "result" \notin DOMAIN data THEN Threw([name |-> "TypeError"])
    ELSE Returned([count |-> Prop(data.result, "total")])

\* the resolver after the fetch: the count of a successful reply, an Error
\* with the reply's error payload otherwise; data.result.total throws a
\* TypeError when the reply has no result
SiteCount(data) ==
    IF ~Success(data)
    THEN Threw([name |-> "Error", what |-> "fetching exposure sites failed",
                error |-> Prop(data, "error")])
    ELSE IF "result" \notin DOMAIN data THEN Threw([name |-> "TypeError"])
    ELSE Returned([count |-> Prop(data.result, "total")])

\* the resolver, from the reply to its fetch
exposureSites(reply) ==
    LET r == fetchJSONResponse(reply)
    IN  IF r.threw THEN r ELSE SiteCount(r.value)

----------------------------------------------------------------------------
(* Runs of the pure functions: an argument is drawn and the function applied *)

\* the day as the data page writes it: one or two digits, omitted (&nbsp;),
\* or missing altogether; n is the day's number, 0 when there is none
DayInputs ==
    { [n |-> 16, text |-> <<" ","1","6">>], [n |-> 1, text |-> <<" ","1">>],
      [n |-> 7, text |-> <<" ","0","7">>], [n |-> 0, text |-> <<"&","n","b","s","p",";">>],
      [n |-> 0, text |-> <<>>] }

\* month names as the pages write them, one of them no key of MONTHS
MonthInputs ==
    { <<"J","a","n","u","a","r","y">>,
      <<"F","e","b","r","u","a","r","y">>,
      <<"M","a","r","c","h">>,
      <<"A","p","r","i","l">>,
      <<"M","a","y">>,
      <<"J","u","n","e">>,
      <<"J","u","l","y">>,
      <<"A","u","g","u","s","t">>,
      <<"S","e","p","t","e","m","b","e","r">>,
      <<"O","c","t","o","b","e","r">>,
      <<"N","o","v","e","m","b","e","r">>,
      <<"D","e","c","e","m","b","e","r">>,
      <<"S","e","p","t">> }

\* the hour as the data page writes it, n being its number
HourInputs ==
    { [n |-> 0, text |-> <<"0">>],
      [n |-> 1, text |-> <<"1">>],
      [n |-> 2, text |-> <<"2">>],
      [n |-> 3, text |-> <<"3">>],
      [n |-> 4, text |-> <<"4">>],
      [n |-> 5, text |-> <<"5">>],
      [n |-> 6, text |-> <<"6">>],
      [n |-> 7, text |-> <<"7">>],
      [n |-> 8, text |-> <<"8">>],
      [n |-> 9, text |-> <<"9">>],
      [n |-> 10, text |-> <<"1","0">>],
      [n |-> 11, text |-> <<"1","1">>],
      [n |-> 12, text |-> <<"1","2">>],
      [n |-> 13, text |-> <<"1","3">>],
      [n |-> 0, text |-> <<"0","0">>],
      [n |-> 1, text |-> <<"0","1">>],
      [n |-> 9, text |-> <<"0","9">>] }

MinuteInputs == { <<"3","0">>, <<"0","5">>, <<"5">> }

\* the text of the data page's paragraph, from its pieces
DataPageText(prefix, day, month, year, hour, minute, aOrP) ==
    prefix \o <<"U","p","d","a","t","e","d",":">> \o day \o <<" ">> \o month \o <<" ">> \o year
    \o <<" ">> \o hour \o <<":">> \o minute \o <<" ", aOrP, "m">>

DataPageInputs ==
    { [ fn |-> "parseDataPageDate",
        prefix |-> prefix, day |-> day, month |-> month, year |-> <<"2","0","2","2">>,
        hour |-> hour, minute |-> minute, aOrP |-> aOrP,
        text |-> DataPageText(prefix, day.text, month, <<"2","0","2","2">>, hour.text,
                              minute, aOrP) ] :
        prefix \in {<<>>, <<"<","p",">">>}, day \in DayInputs, month \in MonthInputs,
        hour \in HourInputs, minute \in MinuteInputs, aOrP \in {"a", "p"} }

\* batched replies over every ID the source can hold
RouteInputs ==
    { [fn |-> "Route", data |-> d] :
        d \in SeqsUpTo({Record(i) : i \in RecordIds \cup {INHERITED_ID}}, MaxReply) }

\* rates as the feed writes them, with their hundredths; one is written as
\* a percentage and one is no number (Number gives NaN for both)
RateInputs ==
    { [text |-> <<"6","2",".","1","0">>, numeric |-> TRUE, hundredths |-> 6210],
      [text |-> <<"6","2",".","4","5">>, numeric |-> TRUE, hundredths |-> 6245],
      [text |-> <<"9",".","5">>, numeric |-> TRUE, hundredths |-> 950],
      [text |-> <<"1","0","0">>, numeric |-> TRUE, hundredths |-> 10000],
      [text |-> <<"6","2",".","4","5","%">>, numeric |-> FALSE, hundredths |-> 6245],
      [text |-> <<"n","/","a">>, numeric |-> FALSE, hundredths |-> 0] }

\* the states and territories and the nation, in the two orders drawn
PlaceOrders ==
    { << <<"N","S","W">>, <<"V","I","C">>, <<"Q","L","D">>, <<"S","A">>, <<"W","A">>, <<"T","A","S">>, <<"N","T">>, <<"A","C","T">>, <<"A","U","S">> >>,
      << <<"V","I","C">>, <<"N","S","W">>, <<"Q","L","D">>, <<"S","A">>, <<"W","A">>, <<"T","A","S">>, <<"N","T">>, <<"A","C","T">>, <<"A","U","S">> >> }

\* one line of the feed
CsvLine(date, place, rate1, rate2) ==
    join(<<date, place, <<"1","0","0","0">>, rate1, <<"5","0","0">>, rate2>>, <<",">>)

\* the lines of one day: Victoria's rates are given, the others' are fixed
DayLines(date, order, rate1, rate2) ==
    [i \in 1..Len(order) |->
       IF order[i] = <<"V", "I", "C">> THEN CsvLine(date, order[i], rate1, rate2)
       ELSE CsvLine(date, order[i], <<"5","0",".","0","0">>, <<"2","5",".","0","0">>)]

\* the feed: three days, the last two being yesterday and today
FeedText(order, y1, y2, t1, t2, newlineAtEnd) ==
    join(DayLines(<<"2","0","2","1","/","0","9","/","1","4">>, order, <<"1",".","0","0">>, <<"2",".","0","0">>)
         \o DayLines(<<"2","0","2","1","/","0","9","/","1","5">>, order, y1, y2)
         \o DayLines(<<"2","0","2","1","/","0","9","/","1","6">>, order, t1, t2),
         <<"\r", "\n">>)
    \o (IF newlineAtEnd THEN <<"\r", "\n">> ELSE <<>>)

OkFeeds ==
    { [ fn |-> "vaccinationStats", order |-> order, newlineAtEnd |-> nl,
        yesterday1 |-> y1, yesterday2 |-> y2, today1 |-> t1, today2 |-> t2,
        reply |-> [ok |-> TRUE,
                   text |-> FeedText(order, y1.text, y2.text, t1.text, t2.text, nl)] ] :
        order \in PlaceOrders, nl \in BOOLEAN,
        y1 \in RateInputs, y2 \in RateInputs, t1 \in RateInputs, t2 \in RateInputs }

\* error payloads of an unsuccessful CKAN reply
CkanErrors ==
    { [type |-> "Not Found Error", message |-> "Not found: Resource was not found."],
      [type |-> "Validation Error", message |-> "Invalid limit"] }

\* site totals a reply can carry
SiteTotals == {0, 1, 250}

\* the JSON bodies of the CKAN endpoint: successful with a total, successful
\* with a result that has no total, unsuccessful with an error payload (with
\* or without a result beside it), and a body without the `success` field
CkanBodies ==
    { [success |-> TRUE, result |-> [total |-> n, records |-> <<>>]] : n \in SiteTotals }
    \cup { [success |-> TRUE, result |-> [records |-> <<>>]] }
    \cup { [success |-> FALSE, error |-> e] : e \in CkanErrors }
    \cup { [success |-> FALSE, error |-> e, result |-> [total |-> n]] :
             e \in CkanErrors, n \in SiteTotals }
    \cup { [result |-> [total |-> n]] : n \in SiteTotals }

\* the replies the resolver can be answered with: a JSON body, a body that
\* is no JSON, and a response that is not ok
ExposureInputs ==
    { [fn |-> "exposureSites", reply |-> reply] :
        reply \in { [ok |-> TRUE, valid |-> TRUE, json |-> d] : d \in CkanBodies }
                  \cup { [ok |-> TRUE, valid |-> FALSE] }
                  \cup { [ok |-> FALSE, statusText |-> t, valid |-> FALSE] :
                           t \in {"Not Found", "Bad Gateway"} } }

\* the feeds the resolver can be answered with
VaccinationInputs ==
    OkFeeds \cup { [fn |-> "vaccinationStats",
                    reply |-> [ok |-> FALSE, statusText |-> "Service Unavailable"]] }

\* the replies a structured-content call can be answered with: each status
\* with a data envelope, an `errors` envelope and a body that is not JSON
CovidInputs ==
    { [fn |-> "covidAPI", message |-> Message("stats"), reply |-> reply] :
        reply \in [statusCode : StatusCodes, body : BadBodies \cup Data({<<>>})] }

InitPure ==
    /\ input \in DataPageInputs \cup RouteInputs \cup VaccinationInputs
                \cup ExposureInputs \cup CovidInputs
    /\ output = NoOutput
    /\ fields = EmptyObj
    /\ pc = "off"
    /\ requests = <<>>
    /\ calls = [c \in Calls |-> [state |-> "idle"]]
    /\ replies = [c \in Calls |-> NoReply]
    /\ response = NoResponse
    /\ failure = NoFailure
    /\ module = ModuleInit
    /\ peer = NoPeer

ApplyParseDataPageDate ==
    /\ input.fn = "parseDataPageDate"
    /\ output.state = "idle"
    /\ output' = [state |-> "done", result |-> parseDataPageDate(input.text)]
    /\ module' = Executed({DATA_PAGE_UPDATED_RE}, input.text)
    /\ UNCHANGED <<fields, pc, requests, calls, replies, response, failure, input, peer>>

ApplyRoute ==
    /\ input.fn = "Route"
    /\ output.state = "idle"
    /\ output' = [state |-> "done", result |-> Route(input.data)]
    /\ UNCHANGED <<fields, pc, requests, calls, replies, response, failure, input,
                   module, peer>>

ApplyVaccinationStats ==
    /\ input.fn = "vaccinationStats"
    /\ output.state = "idle"
    /\ output' = [state |-> "done", result |-> vaccinationStats(input.reply)]
    /\ UNCHANGED <<fields, pc, requests, calls, replies, response, failure, input,
                   module, peer>>

ApplyExposureSites ==
    /\ input.fn = "exposureSites"
    /\ output.state = "idle"
    /\ output' = [state |-> "done", result |-> exposureSites(input.reply)]
    /\ UNCHANGED <<fields, pc, requests, calls, replies, response, failure, input,
                   module, peer>>

\* covidAPI step by step, output.steps listing what has run so far.
\* fetch (graphql.js 101-107): the reply has arrived and its status is tested
AwaitRequest ==
    /\ input.fn = "covidAPI"
    /\ output.state = "idle"
    /\ LET r == fetch(input.reply, <<"fetching ", input.message>>)
       IN  output' = IF r.threw
                     THEN [state |-> "done", steps |-> <<"status">>, result |-> r]
                     ELSE [state |-> "fetched", steps |-> <<"status">>,
                           body |-> r.value]
    /\ UNCHANGED <<fields, pc, requests, calls, replies, response, failure, input,
                   module, peer>>

\* fetchJSON (graphql.js 108): .json() on the body fetch returned
AwaitJson ==
    /\ input.fn = "covidAPI"
    /\ output.state = "fetched"
    /\ LET r == Json(Returned(output.body))
       IN  output' = IF r.threw
                     THEN [state |-> "done", steps |-> Append(output.steps, "json"),
                           result |-> r]
                     ELSE [state |-> "parsed", steps |-> Append(output.steps, "json"),
                           json |-> r.value]
    /\ UNCHANGED <<fields, pc, requests, calls, replies, response, failure, input,
                   module, peer>>

\* covidAPI (graphql.js 111-114): the envelope check on the parsed body
CheckEnvelope ==
    /\ input.fn = "covidAPI"
    /\ output.state = "parsed"
    /\ output' = [state |-> "done", steps |-> Append(output.steps, "envelope"),
                  result |-> Envelope(Returned(output.json), input.message)]
    /\ UNCHANGED <<fields, pc, requests, calls, replies, response, failure, input,
                   module, peer>>

NextPure ==
    \/ AwaitRequest
    \/ AwaitJson
    \/ CheckEnvelope
    \/ ApplyExposureSites
    \/ ApplyVaccinationStats
    \/ ApplyParseDataPageDate
    \/ ApplyRoute

SpecPure == InitPure /\ [][NextPure]_vars

----------------------------------------------------------------------------
(* Properties of the resolver *)

\* the resolver has computed the demand and issued its calls
Dispatched == pc \in {"awaiting", "done", "failed"}

\* the leaves selected under each section
WeeklySel(f) == IF "weekly" \in DOMAIN f THEN DOMAIN f.weekly ELSE {}

VaxSel(f, sub) ==
    IF "vax" \in DOMAIN f /\ sub \in DOMAIN f.vax THEN DOMAIN f.vax[sub] ELSE {}

\* the stat identifiers selected, section by section
SelectedStats(f) ==
    (WeeklySel(f) \cap Range(weeklyStats))
    \cup (VaxSel(f, "percentages") \cap Range(vaxPctStats))
    \cup (VaxSel(f, "totals") \cap Range(vaxTotalStats))

\* the Upstream Record ID the tables give a stat identifier
IdOf(n) ==
    LET table == weeklyToIds \o vaxToIds
    IN  table[CHOOSE i \in 1..Len(table) : table[i][1] = n][2]

\* the batched stats calls issued
StatsRequests == {i \in 1..Len(requests) : requests[i].call = "stats"}

\* C1: the ID list of the batched call holds exactly the IDs of the selected
\* stat identifiers: each of them, no ID of an unselected stat, no entry
\* derived from an `updated` or `week` leaf, no undefined entry
C1_ExactDemand ==
    Dispatched =>
      /\ Range(idsToFetch(fields)) = {IdOf(n) : n \in SelectedStats(fields)}
      /\ \A i \in StatsRequests :
           Range(requests[i].filter.value) = {IdOf(n) : n \in SelectedStats(fields)}

\* the selection holds no leaf other than `updated` and `week` markers
OnlyMarkers(f) ==
    /\ WeeklySel(f) \subseteq {"updated", "week"}
    /\ VaxSel(f, "percentages") \subseteq {"updated"}
    /\ VaxSel(f, "totals") \subseteq {"week"}
    /\ "vax" \in DOMAIN f => "__typename" \notin DOMAIN f.vax

\* C2: a selection without any stat identifier (nothing, or only `updated`
\* and `week` markers) issues no batched stats call, and the stats
\* contribution to the merge is the empty mapping
C2_NoStatNoBatchedCall ==
    (Dispatched /\ OnlyMarkers(fields)) =>
      /\ StatsRequests = {}
      /\ calls["stats"] = [state |-> "fulfilled", value |-> EmptyObj]

\* C3 as stated: the returned object has a key only if that section or field
\* was selected
C3_OnlySelectedKeys ==
    pc = "done" =>
      /\ DOMAIN response \subseteq DOMAIN fields
      /\ "weekly" \in DOMAIN response =>
           DOMAIN response.weekly \subseteq WeeklySel(fields)
      /\ "vax" \in DOMAIN response =>
           /\ "vax" \in DOMAIN fields
           /\ DOMAIN response.vax \subseteq DOMAIN fields.vax
           /\ "percentages" \in DOMAIN response.vax =>
                DOMAIN response.vax.percentages \subseteq VaxSel(fields, "percentages")
           /\ "totals" \in DOMAIN response.vax =>
                DOMAIN response.vax.totals \subseteq VaxSel(fields, "totals")

\* the value of the batched stats element of the Promise.all array
Acc == calls["stats"].value

\* C3, amended: the returned object always has its section keys and its
\* marker keys; a marker has a value other than undefined exactly if it was
\* selected, and a stat key is present exactly if the batched reply carried
\* the stat's record (so none is when no batched call was made)
C3_UnselectedUndefined ==
    pc = "done" =>
      /\ DOMAIN response = {"weekly", "vax"}
      /\ DOMAIN response.vax = {"percentages", "totals"}
      /\ {"updated", "week"} \subseteq DOMAIN response.weekly
      /\ "updated" \in DOMAIN response.vax.percentages
      /\ "week" \in DOMAIN response.vax.totals
      /\ (response.weekly["updated"] # Undefined) <=> ("updated" \in WeeklySel(fields))
      /\ (response.weekly["week"] # Undefined) <=> ("week" \in WeeklySel(fields))
      /\ (response.vax.percentages["updated"] # Undefined)
           <=> ("updated" \in VaxSel(fields, "percentages"))
      /\ (response.vax.totals["week"] # Undefined)
           <=> ("week" \in VaxSel(fields, "totals"))
      /\ DOMAIN response.weekly \ {"updated", "week"} = DOMAIN Get2(Acc, "weekly")
      /\ DOMAIN response.vax.percentages \ {"updated"}
           = DOMAIN Get2(Get2(Acc, "vax"), "percentages")
      /\ DOMAIN response.vax.totals \ {"week"} = DOMAIN Get2(Get2(Acc, "vax"), "totals")
      /\ StatsRequests = {} =>
           /\ DOMAIN response.weekly = {"updated", "week"}
           /\ DOMAIN response.vax.percentages = {"updated"}
           /\ DOMAIN response.vax.totals = {"week"}

\* a request is answered with only totalDeaths selected: the stat is in the
\* returned object, the weekly markers are there too, with value undefined
C3_Witness ==
    /\ pc = "done"
    /\ WeeklySel(fields) = {"totalDeaths"}
    /\ "totalDeaths" \in DOMAIN response.weekly
    /\ response.weekly["updated"] = Undefined
    /\ response.weekly["week"] = Undefined

\* C4: once any upstream call has failed the request has failed: there is
\* no response, and the failure is that of a failed call
C4_AnyFailureFailsRequest ==
    (\E c \in Calls : calls[c].state = "rejected") =>
      /\ pc = "failed"
      /\ response = NoResponse
      /\ \E c \in Calls : calls[c].state = "rejected" /\ calls[c].error = failure

\* the vaccination marker call has failed after the batched call brought
\* the weekly stats: the request has failed all the same
C4_Witness ==
    /\ pc = "failed"
    /\ calls["vaxPctsUpdated"].state = "rejected"
    /\ calls["stats"].state = "fulfilled"
    /\ "weekly" \in DOMAIN Acc

\* the marker leaves of each section
MarkerSelected(f, c) ==
    CASE c = "weeklyMarker" -> WeeklySel(f) \cap {"updated", "week"} # {}
      [] c = "vaxPctsUpdated" -> "updated" \in VaxSel(f, "percentages")
      [] c = "vaxTotalsWeek" -> "week" \in VaxSel(f, "totals")

\* C5: a section's marker call is issued (once) if and only if the
\* section's marker leaf was selected
C5_MarkerCallIffSelected ==
    Dispatched =>
      \A c \in {"weeklyMarker", "vaxPctsUpdated", "vaxTotalsWeek"} :
        Cardinality({i \in 1..Len(requests) : requests[i].call = c})
          = IF MarkerSelected(fields, c) THEN 1 ELSE 0

\* only weekly.week is selected: the weekly marker call is issued, neither
\* vaccination marker call is
C5_Witness ==
    /\ Dispatched
    /\ WeeklySel(fields) = {"week"}
    /\ \E i \in 1..Len(requests) : requests[i].call = "weeklyMarker"
    /\ \A i \in 1..Len(requests) :
         requests[i].call \notin {"vaxPctsUpdated", "vaxTotalsWeek"}

\* name -> ID -> name is the identity on every stat identifier, fromName
\* is injective, no ID is in both tables, and every ID of the tables maps
\* back to a stat identifier through exactly one of them
TablesBijective ==
    LET vaxStats == Range(vaxPctStats) \cup Range(vaxTotalStats)
    IN  /\ \A n \in Range(weeklyStats) :
             /\ weeklyIds.fromName[n] # Undefined
             /\ weeklyIds.fromId[weeklyIds.fromName[n]] = n
        /\ \A n \in vaxStats :
             /\ vaxIds.fromName[n] # Undefined
             /\ vaxIds.fromId[vaxIds.fromName[n]] = n
        /\ \A n, m \in Range(weeklyStats) :
             weeklyIds.fromName[n] = weeklyIds.fromName[m] => n = m
        /\ \A n, m \in vaxStats :
             vaxIds.fromName[n] = vaxIds.fromName[m] => n = m
        /\ \A n \in Range(weeklyStats), m \in vaxStats :
             weeklyIds.fromName[n] # vaxIds.fromName[m]
        /\ \A id \in RecordIds \ {UNKNOWN_ID} :
             (weeklyIds.fromId[id] = Undefined) # (vaxIds.fromId[id] = Undefined)

\* C6: whenever the resolver runs, the tables it uses are these: name -> ID
\* -> name is the identity on every stat identifier, fromName
\* is injective, no ID is in both tables, and every ID of the tables maps
\* back to a stat identifier through exactly one of them
C6_Bijection == pc \in {"start", "awaiting", "done", "failed"} /\ TablesBijective

\* a selected stat was asked for by its ID and came back under its name
C6_Witness ==
    /\ pc = "done"
    /\ \E n \in SelectedStats(fields) :
         /\ \E i \in StatsRequests : IdOf(n) \in Range(requests[i].filter.value)
         /\ n \in DOMAIN response.weekly
                  \cup DOMAIN response.vax.percentages \cup DOMAIN response.vax.totals

C8_Returned(acc) ==
    /\ DOMAIN response = {"weekly", "vax"}
    /\ DOMAIN response.weekly = DOMAIN Get2(acc, "weekly") \cup {"updated", "week"}
    /\ response.weekly["updated"] = Undefined
    /\ response.weekly["week"] = Undefined
    /\ \A k \in DOMAIN Get2(acc, "weekly") : response.weekly[k] = acc.weekly[k]
    /\ response.vax = [ percentages |-> [updated |-> Undefined],
                        totals |-> [week |-> Undefined] ]

----------------------------------------------------------------------------
(* Properties of the pure functions *)

\* the batched reply routed and the outcome of the routing
Routed == input.fn = "Route" /\ output.state = "done"

\* the stat identifier the tables give an Upstream Record ID
NameOf(id) ==
    LET table == weeklyToIds \o vaxToIds
    IN  table[CHOOSE i \in 1..Len(table) : table[i][2] = id][1]

\* the section buckets
Bucket(section) ==
    CASE section = "weekly" -> Range(weeklyStats)
      [] section = "percentages" -> {"dose1", "dose2", "dose3"}
      [] section = "totals" ->
           {"newDoses", "totalDoses", "newAustralianDoses", "newVictorianDoses"}

\* the heading of a record without the white space around it
Core(heading) == SubSeq(heading, 2, Len(heading) - 2)

\* the <<stat identifier, value>> pairs of the reply that belong to a section
Expected(data, section) ==
    { <<NameOf(data[i].id), Core(data[i].attributes.field_statistic_heading)>> :
        i \in {j \in 1..Len(data) : NameOf(data[j].id) \in Bucket(section)} }

\* the <<key, value>> pairs of an object
Entries(obj) == { <<k, obj[k]>> : k \in DOMAIN obj }

\* the pairs routed into each section of acc
Placed(acc, section) ==
    IF section = "weekly" THEN Entries(Get2(acc, "weekly"))
    ELSE Entries(Get2(Get2(acc, "vax"), section))

\* C7: every pair of a batched reply over the IDs of the tables is routed
\* into the section whose bucket holds its stat identifier, under that
\* identifier, and into no other section
C7_Routing ==
    (Routed /\ \A i \in 1..Len(input.data) :
                 input.data[i].id \in RecordIds \ {UNKNOWN_ID}) =>
      /\ ~output.result.threw
      /\ DOMAIN output.result.value \subseteq {"weekly", "vax"}
      /\ DOMAIN Get2(output.result.value, "vax") \subseteq {"percentages", "totals"}
      /\ \A section \in {"weekly", "percentages", "totals"} :
           Placed(output.result.value, section) = Expected(input.data, section)

\* a reply with a percentage record and a totals record was routed
C7_Witness ==
    /\ Routed
    /\ ~output.result.threw
    /\ "vax" \in DOMAIN output.result.value
    /\ DOMAIN output.result.value.vax = {"percentages", "totals"}
    /\ "dose2" \in DOMAIN output.result.value.vax.percentages
    /\ "newDoses" \in DOMAIN output.result.value.vax.totals

\* a data page text with a day (written or omitted) was parsed
Parsed ==
    /\ input.fn = "parseDataPageDate"
    /\ output.state = "done"
    /\ input.day.text # <<>>

TwoDigits(n) ==
    LET digit == <<"0", "1", "2", "3", "4", "5", "6", "7", "8", "9">>
    IN  <<digit[(n \div 10) + 1], digit[(n % 10) + 1]>>

\* the 24-hour value of hour h of the 12-hour clock
Clock24(h, aOrP) ==
    IF aOrP = "a"
    THEN (IF h = 12 THEN <<"0", "0">> ELSE TwoDigits(h))
    ELSE (IF h = 12 THEN <<"1", "2">> ELSE TwoDigits(h + 12))

\* the fields of a date-time around its "T"
TAt(v) == CHOOSE i \in 1..Len(v) : v[i] = "T"

HourOf(v) == SubSeq(v, TAt(v) + 1, TAt(v) + 3)

DayOf(v) == SubSeq(v, TAt(v) - 3, TAt(v) - 1)

\* C9: for every hour h in 1..12 the hour field is the two-digit 24-hour
\* value (12 am 00, 1-11 am h zero-padded, 12 pm 12, 1-11 pm h+12), and
\* `Updated: 16 September 2022 2:30 pm` gives 2022-09-16T14:30:00+10:00
C9_TwelveHourClock ==
    (Parsed /\ input.hour.n \in 1..12) =>
      /\ ~output.result.threw
      /\ HourOf(output.result.value) = Clock24(input.hour.n, input.aOrP) \o <<":">>
      /\ input.text = <<"U","p","d","a","t","e","d",":"," ","1","6"," ","S","e","p","t","e","m","b","e","r"," ","2","0","2","2"," ","2",":","3","0"," ","p","m">> =>
           output.result.value = <<"2","0","2","2","-","0","9","-","1","6","T","1","4",":","3","0",":","0","0","+","1","0",":","0","0">>

\* the example text was parsed
C9_Witness ==
    /\ Parsed
    /\ input.text = <<"U","p","d","a","t","e","d",":"," ","1","6"," ","S","e","p","t","e","m","b","e","r"," ","2","0","2","2"," ","2",":","3","0"," ","p","m">>
    /\ output.result = [threw |-> FALSE, value |-> <<"2","0","2","2","-","0","9","-","1","6","T","1","4",":","3","0",":","0","0","+","1","0",":","0","0">>]

\* C10: with the day omitted (&nbsp;) the day field is 01 and the hour is
\* the one the text gives; a day of one or two digits is emitted as two
\* digits; `Updated:&nbsp; September 2022 9:05 am` gives
\* 2022-09-01T09:05:00+10:00
C10_DayDefault ==
    Parsed =>
      /\ ~output.result.threw
      /\ DayOf(output.result.value)
           = <<"-">> \o (IF input.day.text = <<"&","n","b","s","p",";">>
                         THEN <<"0", "1">> ELSE TwoDigits(input.day.n))
      /\ input.hour.n \in 1..12 /\ input.day.text = <<"&","n","b","s","p",";">> =>
           HourOf(output.result.value) = Clock24(input.hour.n, input.aOrP) \o <<":">>
      /\ input.text = <<"U","p","d","a","t","e","d",":","&","n","b","s","p",";"," ","S","e","p","t","e","m","b","e","r"," ","2","0","2","2"," ","9",":","0","5"," ","a","m">> =>
           output.result.value = <<"2","0","2","2","-","0","9","-","0","1","T","0","9",":","0","5",":","0","0","+","1","0",":","0","0">>

\* the example text without a day was parsed
C10_Witness ==
    /\ Parsed
    /\ input.text = <<"U","p","d","a","t","e","d",":","&","n","b","s","p",";"," ","S","e","p","t","e","m","b","e","r"," ","2","0","2","2"," ","9",":","0","5"," ","a","m">>
    /\ output.result = [threw |-> FALSE, value |-> <<"2","0","2","2","-","0","9","-","0","1","T","0","9",":","0","5",":","0","0","+","1","0",":","0","0">>]

\* a feed was fetched and the resolver returned
VaxReturned ==
    /\ input.fn = "vaccinationStats"
    /\ output.state = "done"
    /\ ~output.result.threw

\* a number of hundredths written with two decimals
Decimal2(k) ==
    LET digit == <<"0", "1", "2", "3", "4", "5", "6", "7", "8", "9">>
        a == IF k < 0 THEN 0 - k ELSE k
        whole == IF a >= 10000 THEN <<digit[(a \div 10000) + 1], digit[((a \div 1000) % 10) + 1]>>
                 ELSE IF a >= 1000 THEN <<digit[(a \div 1000) + 1]>>
                 ELSE <<>>
    IN  (IF k < 0 THEN <<"-">> ELSE <<>>) \o whole
        \o <<digit[((a \div 100) % 10) + 1], ".", digit[((a \div 10) % 10) + 1],
             digit[(a % 10) + 1]>>

\* C11: each rate delta is today's rate minus yesterday's, written with
\* exactly two decimals; yesterday 62.10 and today 62.45 give 0.35
C11_RateDelta ==
    VaxReturned =>
      /\ input.today1.numeric /\ input.yesterday1.numeric =>
           output.result.value.vaxRateDelta
             = Decimal2(input.today1.hundredths - input.yesterday1.hundredths)
      /\ input.today2.numeric /\ input.yesterday2.numeric =>
           output.result.value.vax2RateDelta
             = Decimal2(input.today2.hundredths - input.yesterday2.hundredths)
      /\ input.yesterday1.text = <<"6","2",".","1","0">> /\ input.today1.text = <<"6","2",".","4","5">> =>
           output.result.value.vaxRateDelta = <<"0",".","3","5">>

\* the feed had 62.10 for yesterday and 62.45 for today, and the second
\* rate fell from 62.45 to 9.5
C11_Witness ==
    /\ VaxReturned
    /\ input.yesterday1.text = <<"6","2",".","1","0">>
    /\ input.today1.text = <<"6","2",".","4","5">>
    /\ output.result.value.vaxRateDelta = <<"0",".","3","5">>
    /\ input.yesterday2.text = <<"6","2",".","4","5">>
    /\ input.today2.text = <<"9",".","5">>
    /\ output.result.value.vax2RateDelta = <<"-","5","2",".","9","5">>

\* the calls whose reply has arrived
Replied == {c \in Calls : replies[c] # NoReply}

\* a reply that is no success: a status outside 200..299, a body that is
\* not JSON, or an `errors` envelope
BadReply(reply) ==
    \/ reply.statusCode \notin 200..299
    \/ ~reply.body.valid
    \/ "errors" \in DOMAIN reply.body.json

\* C12: once a call has been answered with a non-success status, a body
\* that is not JSON or an `errors` envelope, the request has failed and has
\* no response; the call was made once and is not made again
C12_BadReplyFailsRequest ==
    \A c \in Replied :
      BadReply(replies[c]) =>
        /\ calls[c].state = "rejected"
        /\ pc = "failed"
        /\ response = NoResponse
        /\ Cardinality({i \in 1..Len(requests) : requests[i].call = c}) = 1

\* the batched call was answered with an `errors` envelope after the weekly
\* marker call had succeeded
C12_Witness ==
    /\ pc = "failed"
    /\ calls["weeklyMarker"].state = "fulfilled"
    /\ "stats" \in Replied
    /\ replies["stats"].statusCode = 200
    /\ replies["stats"].body.valid
    /\ "errors" \in DOMAIN replies["stats"].body.json

\* the paragraph text a marker call was answered with
TextOf(reply) == reply.body.json.data.attributes.field_paragraph_body.value

\* the markers: the call that fetches each, whether it is selected, and the
\* name of the regular expression its text has to match
Markers ==
    { [call |-> "weeklyMarker", selected |-> "updated" \in WeeklySel(fields),
       re |-> DATA_PAGE_UPDATED_RE.name],
      [call |-> "weeklyMarker", selected |-> "week" \in WeeklySel(fields),
       re |-> WEEKLY_WEEK_RE.name],
      [call |-> "vaxPctsUpdated", selected |-> "updated" \in VaxSel(fields, "percentages"),
       re |-> HOME_PAGE_UPDATED_RE.name],
      [call |-> "vaxTotalsWeek", selected |-> "week" \in VaxSel(fields, "totals"),
       re |-> VAX_TOTALS_WEEK_RE.name] }

\* the regular expression of that name
RegExpNamed(n) ==
    CASE n = DATA_PAGE_UPDATED_RE.name -> DATA_PAGE_UPDATED_RE
      [] n = WEEKLY_WEEK_RE.name -> WEEKLY_WEEK_RE
      [] n = HOME_PAGE_UPDATED_RE.name -> HOME_PAGE_UPDATED_RE
      [] n = VAX_TOTALS_WEEK_RE.name -> VAX_TOTALS_WEEK_RE

\* the text fetched for marker m does not match m's regular expression
NoMatchFor(m) ==
    /\ m.selected
    /\ m.call \in Replied
    /\ ~BadReply(replies[m.call])
    /\ replies[m.call].statusCode = 200
    /\ ~exec(RegExpNamed(m.re), TextOf(replies[m.call])).matched

\* C13: once the text fetched for a selected marker has failed to match
\* the marker's regular expression, the request has failed and has no
\* response
C13_NoMatchFailsRequest ==
    \A m \in Markers :
      NoMatchFor(m) =>
        /\ calls[m.call].state = "rejected"
        /\ pc = "failed"
        /\ response = NoResponse

\* both weekly markers are selected and the paragraph holds the date but
\* no week
C13_Witness ==
    /\ pc = "failed"
    /\ WeeklySel(fields) = {"updated", "week"}
    /\ "weeklyMarker" \in Replied
    /\ ~BadReply(replies["weeklyMarker"])
    /\ exec(DATA_PAGE_UPDATED_RE, TextOf(replies["weeklyMarker"])).matched
    /\ ~exec(WEEKLY_WEEK_RE, TextOf(replies["weeklyMarker"])).matched

\* the selected leaves that are neither a stat identifier of their section
\* nor a marker name
UnknownLeaves(f) ==
    (WeeklySel(f) \ (Range(weeklyStats) \cup {"updated", "week"}))
    \cup (VaxSel(f, "percentages") \ (Range(vaxPctStats) \cup {"updated", "week"}))
    \cup (VaxSel(f, "totals") \ (Range(vaxTotalStats) \cup {"updated", "week"}))

\* no `week` leaf is selected
NoWeekLeaf(f) ==
    "week" \notin WeeklySel(f) \cup VaxSel(f, "percentages") \cup VaxSel(f, "totals")

\* C14: an unknown leaf (such as __typename) is ignored by the demand
\* computation: the ID list holds the IDs of the selected stats and nothing
\* for the leaf, the leaf alone triggers no batched call, and the
\* computation does not fail (stated for the selections without a `week`
\* leaf, whose entry in the list is the matter of C1)
C14_UnknownLeafIgnored ==
    (Dispatched /\ UnknownLeaves(fields) # {} /\ NoWeekLeaf(fields)) =>
      /\ Range(idsToFetch(fields)) = {IdOf(n) : n \in SelectedStats(fields)}
      /\ SelectedStats(fields) = {} => StatsRequests = {}

\* the sections that hold stats
Sections == {"weekly", "percentages", "totals"}

\* the stat identifiers selected in a section
StatsIn(f, section) ==
    CASE section = "weekly" -> WeeklySel(f) \cap Range(weeklyStats)
      [] section = "percentages" -> VaxSel(f, "percentages") \cap Range(vaxPctStats)
      [] section = "totals" -> VaxSel(f, "totals") \cap Range(vaxTotalStats)

\* the entries the demand computation makes for one section: its list for
\* the selection cut down to that section
DemandOf(f, section) ==
    IF section = "weekly"
    THEN (IF "weekly" \in DOMAIN f THEN idsToFetch([weekly |-> f.weekly]) ELSE <<>>)
    ELSE (IF "vax" \in DOMAIN f /\ section \in DOMAIN f.vax
          THEN idsToFetch([vax |-> [sub \in {section} |-> f.vax[section]]])
          ELSE <<>>)

\* C15: for every shape of selection (a section absent, a section with no
\* field, vax with one sub-section only) the demand computation yields an
\* empty demand for every section in which no stat is selected
C15_EmptyDemand ==
    Dispatched =>
      \A section \in Sections :
        StatsIn(fields, section) = {} => DemandOf(fields, section) = <<>>

----------------------------------------------------------------------------
\* the number of requests issued for call c
Issued(c) == Cardinality({i \in 1..Len(requests) : requests[i].call = c})

\* C16: one request issues at most one call for each distinct marker source
\* and at most one batched stats call, at most four calls in all; every call
\* is issued at most once, and a call that failed has not been issued again
C16_EachCallAtMostOnce ==
    /\ Len(requests) <= 4
    /\ \A c \in Calls : Issued(c) <= 1
    /\ \A i, j \in 1..Len(requests) :
         requests[i].path = requests[j].path => i = j
    /\ Cardinality({i \in 1..Len(requests) : requests[i].call = "stats"}) <= 1
    /\ \A c \in Calls : calls[c].state = "rejected" => Issued(c) = 1

\* the four calls were issued, one of them failed and every other one has
\* settled since
C16_Witness ==
    /\ Len(requests) = 4
    /\ pc = "failed"
    /\ \E c \in Calls : calls[c].state = "rejected"
    /\ \A c \in Calls : calls[c].state # "pending"

----------------------------------------------------------------------------
\* the calls still in flight
Pending == {c \in Calls : calls[c].state = "pending"}

\* a call fails while the request is waiting: the request fails in the same
\* step with that call's error, and the other calls are left as they were
FailsAtOnce ==
    \A c \in Pending :
      (pc = "awaiting" /\ calls'[c].state = "rejected") =>
        /\ pc' = "failed"
        /\ failure' = calls'[c].error
        /\ response' = NoResponse
        /\ \A d \in Calls \ {c} : calls'[d] = calls[d]

\* once the request has failed, nothing that completes later changes it
OutcomeKept ==
    pc = "failed" => (pc' = "failed" /\ failure' = failure /\ response' = response)

\* C17: when one of the dispatched calls fails while others are in flight, the
\* request fails in that step without waiting for them; the outstanding calls
\* stay in flight as they were, and their later success or failure leaves the
\* request's failure and its absent response unchanged
C17_FailFastAndFinal == [][FailsAtOnce /\ OutcomeKept]_vars

\* the request failed with one call's error and another call failed later with
\* a different error
C17_Witness ==
    /\ pc = "failed"
    /\ \E c, d \in Calls :
         /\ calls[c].state = "rejected" /\ calls[d].state = "rejected"
         /\ failure = calls[c].error
         /\ calls[d].error # failure

----------------------------------------------------------------------------
\* the places of the response a marker value belongs to
MarkerSlots ==
    { [call |-> "weeklyMarker", section |-> "weekly", key |-> "updated"],
      [call |-> "weeklyMarker", section |-> "weekly", key |-> "week"],
      [call |-> "vaxPctsUpdated", section |-> "percentages", key |-> "updated"],
      [call |-> "vaxTotalsWeek", section |-> "totals", key |-> "week"] }

\* whether the selection asks for the marker of slot m
SlotSelected(m) ==
    IF m.section = "weekly" THEN m.key \in WeeklySel(fields)
    ELSE m.key \in VaxSel(fields, m.section)

\* the value parsed from the text replied to the call of slot m
SlotValue(m) ==
    LET text == TextOf(replies[m.call])
    IN  CASE m.call = "weeklyMarker" /\ m.key = "updated" -> parseDataPageDate(text).value
          [] m.call = "weeklyMarker" /\ m.key = "week" -> parseWeek(WEEKLY_WEEK_RE, text).value
          [] m.call = "vaxPctsUpdated" -> parseHomePageDate(text).value
          [] m.call = "vaxTotalsWeek" -> parseWeek(VAX_TOTALS_WEEK_RE, text).value

\* a section of the response tree
SectionOf(resp, section) ==
    IF section = "weekly" THEN resp.weekly ELSE resp.vax[section]

\* the <<key, value>> pairs of a section of the response that are no markers
StatPairs(resp, section) ==
    { e \in Entries(SectionOf(resp, section)) :
        \A m \in MarkerSlots : ~(m.section = section /\ m.key = e[1]) }

\* the records the batched stats call was answered with
StatsReplied ==
    IF "stats" \in Replied THEN replies["stats"].body.json.data ELSE <<>>

\* C18: every wanted call has been issued by the time any reply is taken, and
\* when every call has succeeded the response is determined by the selection
\* and the replies alone, whatever the order the calls completed in: each
\* selected marker holds the value parsed from its own call's text in its own
\* section, and each section holds exactly the stats of the batched reply
\* that belong to it, each under its own identifier
C18_OrderIndependent ==
    /\ Replied # {} => \A c \in Calls : Wanted(fields, c) => Issued(c) = 1
    /\ pc = "done" =>
         /\ \A m \in MarkerSlots :
              SlotSelected(m) =>
                SlotValue(m) = SectionOf(response, m.section)[m.key]
         /\ \A section \in {"weekly", "percentages", "totals"} :
              StatPairs(response, section) = Expected(StatsReplied, section)

\* the four calls were issued and all succeeded, the batched reply holding
\* stats of two different sections
C18_Witness ==
    /\ pc = "done"
    /\ Replied = Calls
    /\ Len(StatsReplied) >= 2
    /\ \E section \in {"percentages", "totals"} :
         /\ Expected(StatsReplied, "weekly") # {}
         /\ Expected(StatsReplied, section) # {}

----------------------------------------------------------------------------
\* the first request as one value
Own ==
    [ fields |-> fields, pc |-> pc, requests |-> requests, calls |-> calls,
      replies |-> replies, response |-> response, failure |-> failure ]

\* the calls of request s that have been answered
Answered(s) == {c \in Calls : s.replies[c] # NoReply}

\* the outcome of call c of request s, from s's selection and the reply to c
OwnOutcome(s, c) == Promise(Settled(s.fields, c, s.replies[c]))

\* request s is what its own selection and the replies to its own calls
\* make it: its requests, the outcome of each answered call, its response
\* when it succeeded and its error when it failed
Solo(s) ==
    /\ s.pc \in {"awaiting", "done", "failed"} =>
         s.requests = Map(LAMBDA c : Request(s.fields, c),
                          Filter(LAMBDA c : Wanted(s.fields, c), CallNames))
    /\ \A c \in Answered(s) : s.calls[c] = OwnOutcome(s, c)
    /\ s.pc = "done" =>
         s.response = Return([c \in Calls |->
                                IF Wanted(s.fields, c) THEN OwnOutcome(s, c)
                                ELSE [state |-> "fulfilled", value |-> Default(c)]])
    /\ s.pc = "failed" =>
         \E c \in Answered(s) :
           OwnOutcome(s, c) = [state |-> "rejected", error |-> s.failure]

\* C19: of two requests served at the same time, each one's outbound calls,
\* call outcomes, response and error are those its own selection and the
\* replies to its own calls give, whatever the other request has done, and
\* the module-level tables and RegExps are as the module's top level left them
C19_NoInterference ==
    /\ module = ModuleInit
    /\ Solo(Own)
    /\ Solo(peer)

\* both requests selected the weekly date, were answered with different
\* texts and succeeded, each with the date of its own reply
C19_Witness ==
    /\ pc = "done" /\ peer.pc = "done"
    /\ fields = peer.fields
    /\ "weeklyMarker" \in Answered(Own) \cap Answered(peer)
    /\ response.weekly.updated # peer.response.weekly.updated
    /\ response.weekly.updated = parseDataPageDate(TextOf(replies["weeklyMarker"])).value
    /\ peer.response.weekly.updated
         = parseDataPageDate(TextOf(peer.replies["weeklyMarker"])).value

----------------------------------------------------------------------------
\* the exposureSites resolver has run on a reply whose body is JSON
SitesAnswered ==
    /\ input.fn = "exposureSites" /\ output.state = "done"
    /\ input.reply.ok /\ input.reply.valid

\* C20: on a reply whose `success` is false the exposureSites resolver fails
\* with an Error that carries the reply's error payload; on a reply whose
\* `success` is true it returns a count equal to result.total; and it
\* returns a count for no other reply
C20_SuccessDecides ==
    /\ SitesAnswered =>
         LET data == input.reply.json
         IN  /\ ("success" \in DOMAIN data /\ ~data.success) =>
                  /\ output.result.threw
                  /\ output.result.error.name = "Error"
                  /\ output.result.error.error = data.error
             /\ ("success" \in DOMAIN data /\ data.success) =>
                  /\ ~output.result.threw
                  /\ DOMAIN output.result.value = {"count"}
                  /\ output.result.value.count = Prop(data.result, "total")
    /\ (input.fn = "exposureSites" /\ output.state = "done" /\ ~output.result.threw) =>
         /\ SitesAnswered
         /\ "success" \in DOMAIN input.reply.json
         /\ input.reply.json.success

\* the resolver failed on an unsuccessful reply that held a total beside its
\* error payload
C20_Witness ==
    /\ SitesAnswered
    /\ output.result.threw
    /\ output.result.error.name = "Error"
    /\ input.reply.json = [success |-> FALSE, error |-> output.result.error.error,
                            result |-> [total |-> 250]]

----------------------------------------------------------------------------
\* the label a failure of call c is to carry: `fetching <message>`
LabelOf(c) == <<"fetching ", Message(c)>>

\* the error says which call failed
Labelled(error, c) == "message" \in DOMAIN error /\ error.message = LabelOf(c)

\* the structured-content call c was answered and failed
CallFailed(c) == c \in Replied /\ Fetched(c, replies[c]).threw

\* the failure of a reply with a status other than 200 carries the status
\* code and the label, the failure of an `errors` envelope the label and
\* the payload
NamedFailuresLabelled ==
    \A c \in Replied :
      LET reply == replies[c]
          error == Fetched(c, reply).error
      IN  /\ reply.statusCode # 200 =>
               /\ Labelled(error, c)
               /\ error.statusCode = reply.statusCode
          /\ (/\ reply.statusCode = 200 /\ reply.body.valid
              /\ "errors" \in DOMAIN reply.body.json) =>
               /\ Labelled(error, c)
               /\ error.errors = reply.body.json.errors

\* C21: every failure raised by a structured-content call says which upstream
\* call failed: the call's promise is rejected with an error that carries the
\* call's `fetching <message>` label, with the status code for a status
\* failure and with the `errors` payload for an envelope failure
C21_FailureNamesCall ==
    /\ \A c \in Calls :
         CallFailed(c) =>
           /\ calls[c].state = "rejected"
           /\ Labelled(calls[c].error, c)
    /\ NamedFailuresLabelled

----------------------------------------------------------------------------
\* the rate r of the feed stands for a number: a numeral, or a numeral
\* written as a percentage
HasRate(r) == r.numeric \/ r.text[Len(r.text)] = "%"

\* vax2Rate is today's second rate exactly as the feed wrote it
Vax2RatePassedThrough ==
    VaxReturned => output.result.value.vax2Rate = input.today2.text

\* C22: vax2Rate is today's second-dose rate as the upstream string, neither
\* parsed nor reformatted, and vax2RateDelta is today's second-dose rate
\* minus yesterday's, written with two decimals, also when the feed writes
\* the rates as text or as percentages
C22_PassThroughAndDelta ==
    /\ Vax2RatePassedThrough
    /\ (VaxReturned /\ HasRate(input.today2) /\ HasRate(input.yesterday2)) =>
         Decimal2(input.today2.hundredths - input.yesterday2.hundredths)
           = output.result.value.vax2RateDelta

----------------------------------------------------------------------------
\* the vaccination resolver has run on a feed that was fetched
FeedAnswered ==
    /\ input.fn = "vaccinationStats"
    /\ output.state = "done"
    /\ input.reply.ok

\* the resolver's answer is the one of yesterday's and today's VIC rows of
\* the feed: today's date and rates, and the deltas against yesterday's
FromLastTwoVicRows ==
    /\ ~output.result.threw
    /\ output.result.value
         = VaxStats(input.yesterday1.text, input.yesterday2.text,
                    <<"2","0","2","1","/","0","9","/","1","6">>,
                    input.today1.text, input.today2.text)

\* C23: for every feed whose tail holds the last two days of all 9 regions,
\* with or without a CRLF at its end, the resolver answers from the two most
\* recent VIC rows, the earlier as yesterday and the later as today
C23_LastTwoVicRows == FeedAnswered => FromLastTwoVicRows

\* the same for the feeds that do not both end with a CRLF and list VIC
\* first among the regions of a day
LastTwoVicRowsUnlessCut ==
    (FeedAnswered /\ ~(input.newlineAtEnd /\ input.order[1] = <<"V", "I", "C">>))
      => FromLastTwoVicRows

----------------------------------------------------------------------------
\* the request has completed: with the full response tree, or with a failure
Completed ==
    \/ /\ pc = "done"
       /\ DOMAIN response = {"weekly", "vax"}
       /\ DOMAIN response.vax = {"percentages", "totals"}
    \/ /\ pc = "failed"
       /\ \E c \in Calls : calls[c].state = "rejected" /\ calls[c].error = failure

\* a request that has not completed is waiting for calls it dispatched itself
WaitsForOwnCalls ==
    pc = "awaiting" =>
      /\ Pending # {}
      /\ \A c \in Pending : Issued(c) = 1

\* C24: when every dispatched upstream call is eventually answered, the
\* request eventually completes, with a full response or with a failure, and
\* until then it waits for nothing but calls it dispatched itself
C24_EventuallyCompletes == []WaitsForOwnCalls /\ <>Completed

\* the request completed with its response after three or more calls had
\* been answered
C24_Witness ==
    /\ pc = "done"
    /\ Pending = {}
    /\ Cardinality(Replied) >= 3
    /\ Cardinality(Replied) = Len(requests)
    /\ Completed

\* the weekly marker call has been answered with status 200 and a paragraph
WeeklyTextFetched ==
    /\ replies["weeklyMarker"] # NoReply
    /\ ~fetchParagraph(replies["weeklyMarker"], Message("weeklyMarker")).threw

\* the requests sent for the paragraph of the weekly section
WeeklyFetches ==
    {i \in 1..Len(requests) :
       requests[i].path = <<"paragraph/basic_text/", WEEKLY_UPDATED_ID>>}

\* the outcome of the weekly element when only the parser `wanted` is applied
\* to the fetched text, as the first (place = 1) or second of the pair
OnlyParsed(wanted, place) ==
    IF wanted.threw
    THEN calls["weeklyMarker"] = [state |-> "rejected", error |-> wanted.error]
    ELSE calls["weeklyMarker"] =
           [state |-> "fulfilled",
            value |-> IF place = 1 THEN <<wanted.value, Undefined>>
                      ELSE <<Undefined, wanted.value>>]

\* C25: with weekly.updated or weekly.week selected one paragraph fetch is
\* issued for the weekly section; with both selected the two values of the
\* response are parsed from that one text; with one selected only its parser
\* is applied, so the weekly element fails only when that parser fails
C25_OneFetchOwnParsers ==
    /\ pc # "start" =>
         Cardinality(WeeklyFetches) =
           (IF WeeklyUpdatedWanted(fields) \/ WeeklyWeekWanted(fields) THEN 1 ELSE 0)
    /\ WeeklyTextFetched =>
         LET text == TextOf(replies["weeklyMarker"])
         IN  /\ WeeklyUpdatedWanted(fields) /\ WeeklyWeekWanted(fields) /\ pc = "done" =>
                  /\ response.weekly.updated = parseDataPageDate(text).value
                  /\ response.weekly.week = parseWeek(WEEKLY_WEEK_RE, text).value
             /\ WeeklyUpdatedWanted(fields) /\ ~WeeklyWeekWanted(fields) =>
                  OnlyParsed(parseDataPageDate(text), 1)
             /\ WeeklyWeekWanted(fields) /\ ~WeeklyUpdatedWanted(fields) =>
                  OnlyParsed(parseWeek(WEEKLY_WEEK_RE, text), 2)

\* weekly.updated alone was selected and the request completed on a text that
\* holds the date and no week
C25_Witness ==
    /\ pc = "done"
    /\ WeeklyUpdatedWanted(fields) /\ ~WeeklyWeekWanted(fields)
    /\ WeeklyTextFetched
    /\ parseWeek(WEEKLY_WEEK_RE, TextOf(replies["weeklyMarker"])).threw
    /\ response.weekly.updated = parseDataPageDate(TextOf(replies["weeklyMarker"])).value
    /\ Cardinality(WeeklyFetches) = 1

\* whether an ID is the ID of an entry of one of the two tables
InTables(id) ==
    \/ \E i \in 1..Len(weeklyToIds) : weeklyToIds[i][2] = id
    \/ \E i \in 1..Len(vaxToIds) : vaxToIds[i][2] = id

\* the records of a reply whose ID is in neither table
Foreign(data) == {i \in 1..Len(data) : ~InTables(data[i].id)}

\* C26: a batched reply with a record whose ID is in neither table makes the
\* `then` callback of the stats call throw, which fails the request: the
\* record is not skipped and nothing of it is returned for the response
C26_ForeignRecordFails ==
    (Routed /\ Foreign(input.data) # {}) => output.result.threw

\* the same for the replies whose foreign records all have IDs that name
\* nothing a plain object inherits
ForeignRecordFailsUnlessInherited ==
    (Routed /\ \E i \in Foreign(input.data) : input.data[i].id # INHERITED_ID) =>
      output.result.threw

\* the failure fetch throws for the reply to call c
StatusFailure(c) ==
    [name |-> "Error", what |-> "HTTP status code",
     statusCode |-> replies[c].statusCode, message |-> LabelOf(c)]

\* C27: a reply is accepted by fetch exactly when its status code is 200: a
\* reply with any other status, 204 included, rejects its call with the
\* status failure and fails the request, and a reply with status 200 never
\* gives a status failure
C27_OnlyStatus200Accepted ==
    \A c \in Replied :
      IF replies[c].statusCode = 200
      THEN calls[c].state = "rejected" => "statusCode" \notin DOMAIN calls[c].error
      ELSE /\ calls[c] = [state |-> "rejected", error |-> StatusFailure(c)]
           /\ pc = "failed"
           /\ response = NoResponse

\* a reply with status 204 and a well-formed data envelope failed the request
C27_Witness ==
    \E c \in Replied :
      /\ replies[c].statusCode = 204
      /\ replies[c].body.valid
      /\ "data" \in DOMAIN replies[c].body.json
      /\ pc = "failed"
      /\ failure = StatusFailure(c)

\* a structured-content call on which fetch has acted
CovidCalled == input.fn = "covidAPI" /\ output.state # "idle"

\* C28: in a structured-content call the status is tested first; a reply with
\* a status other than 200 ends the call there with the status failure,
\* whatever its body, which is neither parsed nor tested for `errors`; the
\* envelope check runs only for status 200
C28_StatusBeforeBody ==
    CovidCalled =>
      /\ output.steps[1] = "status"
      /\ input.reply.statusCode # 200 =>
           /\ output.state = "done"
           /\ output.steps = <<"status">>
           /\ output.result =
                Threw([name |-> "Error", what |-> "HTTP status code",
                       statusCode |-> input.reply.statusCode,
                       message |-> <<"fetching ", input.message>>])
      /\ (\E i \in 1..Len(output.steps) : output.steps[i] = "envelope") =>
           input.reply.statusCode = 200
      /\ output.state = "done" =>
           output.result = covidAPI(input.reply, input.message)

\* a reply with status 500 and an `errors` envelope ended with the status
\* failure
C28_Witness ==
    /\ CovidCalled
    /\ output.state = "done"
    /\ input.reply.statusCode = 500
    /\ input.reply.body.valid
    /\ "errors" \in DOMAIN input.reply.body.json
    /\ output.result.threw
    /\ output.result.error.what = "HTTP status code"

\* a two-digit number from lo to hi at positions i and i + 1 of v
NumberAt(v, i, lo, hi) ==
    /\ IsDigit(v[i]) /\ IsDigit(v[i + 1])
    /\ 10 * DigitValue(v[i]) + DigitValue(v[i + 1]) \in lo..hi

\* yyyy-mm-ddThh:mm:00+10:00 with the month in 01-12 and the hour in 00-23
WellFormedDateTime(v) ==
    /\ Len(v) = 25
    /\ \A i \in 1..4 : IsDigit(v[i])
    /\ v[5] = "-" /\ NumberAt(v, 6, 1, 12)
    /\ v[8] = "-" /\ NumberAt(v, 9, 0, 99)
    /\ v[11] = "T" /\ NumberAt(v, 12, 0, 23)
    /\ v[14] = ":" /\ NumberAt(v, 15, 0, 99)
    /\ SubSeq(v, 17, 25) = <<":","0","0","+","1","0",":","0","0">>

\* parseDataPageDate returned a value
DateReturned ==
    /\ input.fn = "parseDataPageDate"
    /\ output.state = "done"
    /\ ~output.result.threw

\* C29: every value parseDataPageDate returns is well-formed: a four-digit
\* year, a two-digit month from 01 to 12, a two-digit day, a two-digit hour
\* from 00 to 23 and a two-digit minute
C29_WellFormedDate == DateReturned => WellFormedDateTime(output.result.value)

\* the same for the texts with a month name of MONTHS, an hour from 1 to 12
\* and a two-digit minute
WellFormedForCalendarTexts ==
    ( /\ DateReturned
      /\ MonthsGet(input.month) # Undefined
      /\ input.hour.n \in 1..12
      /\ Len(input.minute) = 2 ) =>
      WellFormedDateTime(output.result.value)

====
